---------------------------- MODULE Spec2Model ----------------------------
(***************************************************************************)
(* Team project planner: users, teams, team membership, boards and tasks   *)
(* kept in a SQLite store (src/database.py) and manipulated by the service *)
(* classes of src/services.py.                                             *)
(*                                                                         *)
(* Spec      : users, teams and membership from the empty store; every     *)
(*             operation runs to completion as one step (one connection,   *)
(*             one commit or an implicit rollback).                        *)
(* SpecBoard : boards and tasks of an existing team, one operation a step. *)
(* SpecCap   : membership operations on a team one member short of the     *)
(*             maximum team size.                                          *)
(* SpecConc  : operations of several connections interleaved statement by  *)
(*             statement under SQLite's locking.                           *)
(* SpecUser  : creation and update of users.                               *)
(* SpecTeams : update of and membership in two existing teams.             *)
(* SpecList  : boards of two teams created, closed and listed.             *)
(* SpecAll   : every writing operation, one operation a step.              *)
(* SpecCapConc : add_users_to_team of several connections, statement by    *)
(*             statement, on the team of SpecCap.                          *)
(***************************************************************************)
EXTENDS Integers, Sequences, FiniteSets, TLC

VARIABLES db, prev, last, now, conns, writer

vars == <<db, prev, last, now, conns, writer>>

----------------------------------------------------------------------------
(* Bounds of the model *)

MaxUsers  == 2
MaxTeams  == 1
MaxBoards == 1
MaxTasks  == 1
MaxTime   == 1
MaxBatch  == 2
MaxConns  == 2
MaxListed == 3
MaxSame   == 2

(* Program constants *)

MaxTeamSize    == 50
MaxNameLen     == 64
MaxDescLen     == 128
MaxDisplayUpd  == 128

----------------------------------------------------------------------------
(* Text values.  A string is described by the text that remains after     *)
(* str.strip() (body), and by whether it carries leading or trailing       *)
(* whitespace (ws); two strings are equal when both agree.  A field that   *)
(* is missing from the request has present = FALSE.                        *)

Str(b)    == [present |-> TRUE, body |-> b, ws |-> FALSE]
Padded(b) == [present |-> TRUE, body |-> b, ws |-> TRUE]
Missing   == [present |-> FALSE, body |-> "", ws |-> FALSE]

\* the string is used as it was received
strip_Raw(s) == s

\* str.strip()
strip(s) == [s EXCEPT !.ws = FALSE]

\* len() of a stripped string; the bodies "L65", "L128", "L129" stand for
\* strings of that many characters, "N102" for a string of 102 characters
\* whose second character is NUL.
StrLen(s) ==
    CASE s.body = ""     -> 0
      [] s.body = "L65"  -> 65
      [] s.body = "N102" -> 102
      [] s.body = "L128" -> 128
      [] s.body = "L129" -> 129
      [] OTHER           -> 5

\* length() of SQLite in a CHECK constraint: the number of characters
\* before the first NUL character
SqlLength(s) == IF s.body = "N102" THEN 1 ELSE StrLen(s)

(* Identifier values of a request.  n is the integer SQLite compares       *)
(* against an INTEGER column (column affinity converts '1', '01', 1.0 to   *)
(* 1); canon tells whether Python's str() of the value is the canonical    *)
(* decimal string of n ("1" for 1 and '1', but "01" for '01').             *)

Id(k)    == [present |-> TRUE, n |-> k, canon |-> TRUE]
IdAlt(k) == [present |-> TRUE, n |-> k, canon |-> FALSE]
NoId     == [present |-> FALSE, n |-> 0, canon |-> TRUE]

\* WHERE <integer column> = ?
SqlEq(col, v) == col = v.n

\* str(user_id) == str(admin_id), admin_id read from an INTEGER column
StrEq(v, col) == v.canon /\ v.n = col

----------------------------------------------------------------------------
(* The store *)

EmptyDb ==
    [users |-> << >>, teams |-> << >>, members |-> {},
     boards |-> << >>, tasks |-> << >>]

NoTime == -1

\* the row is not looked up
UserExists_Any(d, v) == TRUE

\* SELECT id FROM <table> WHERE id = ? returns a row
UserExists(d, v)  == \E i \in 1..Len(d.users)  : SqlEq(i, v)
TeamExists(d, v)  == \E i \in 1..Len(d.teams)  : SqlEq(i, v)
BoardExists(d, v) == \E i \in 1..Len(d.boards) : SqlEq(i, v)
TaskExists(d, v)  == \E i \in 1..Len(d.tasks)  : SqlEq(i, v)

\* the statements executed on the connection are kept
CloseWithoutCommit_Keep(d, tx) == tx

\* finally: conn.close() on a connection whose transaction tx was not
\* committed: SQLite rolls the transaction back, the store stays d
CloseWithoutCommit(d, tx) == d

\* Outcome of an operation: the committed store, the kind of result and
\* the value returned ("success", "validation" for ValidationError,
\* "storage" for DatabaseError).
Ok(d, o)   == [db |-> d, res |-> "success", out |-> o]
Invalid(d) == [db |-> d, res |-> "validation", out |-> 0]
Broken(d)  == [db |-> d, res |-> "storage", out |-> 0]

\* the IntegrityError is reported as any other database error
UniqueConflict_AsStorage(d) == Broken(d)

\* except sqlite3.IntegrityError: "UNIQUE constraint failed" in str(e) is
\* raised as ValidationError; the statement has written nothing
UniqueConflict(d) == Invalid(d)

----------------------------------------------------------------------------
(* UserService *)

create_user(d, req, t) ==
    IF ~req.name.present \/ ~req.display_name.present THEN Invalid(d)
    ELSE LET name == strip(req.name)
             display_name == strip(req.display_name)
         IN IF StrLen(name) > MaxNameLen THEN Invalid(d)
            ELSE IF StrLen(display_name) > MaxNameLen THEN Invalid(d)
            ELSE IF StrLen(name) = 0 THEN Invalid(d)
            ELSE IF StrLen(display_name) = 0 THEN Invalid(d)
            ELSE IF \E i \in 1..Len(d.users) : d.users[i].name = name
                 THEN UniqueConflict(d)
            ELSE Ok([d EXCEPT !.users = Append(@,
                        [name |-> name,
                         display_name |-> display_name,
                         creation_time |-> t])],
                    Len(d.users) + 1)

\* a name in the payload is not looked at
NameSupplied_Ignored(req) == FALSE

\* 'name' in user_data
NameSupplied(req) == req.name.present

update_user(d, req) ==
    IF ~req.display_name.present THEN Invalid(d)
    ELSE LET display_name == strip(req.display_name)
         IN IF StrLen(display_name) > MaxDisplayUpd THEN Invalid(d)
            ELSE IF StrLen(display_name) = 0 THEN Invalid(d)
            ELSE IF NameSupplied(req) THEN Invalid(d)
            ELSE IF ~UserExists(d, req.id) THEN Invalid(d)
            \* CHECK(length(display_name) <= 64) of the users table
            ELSE IF SqlLength(display_name) > MaxNameLen THEN Broken(d)
            ELSE Ok([d EXCEPT !.users[req.id.n].display_name =
                                  display_name], 0)

----------------------------------------------------------------------------
(* TeamService *)

TeamSize(d, team) == Cardinality({m \in d.members : m[1] = team})

create_team(d, req, t) ==
    IF ~req.name.present \/ ~req.description.present \/ ~req.admin.present
    THEN Invalid(d)
    ELSE LET name == strip(req.name)
             description == strip(req.description)
             team_id == Len(d.teams) + 1
         IN IF StrLen(name) > MaxNameLen THEN Invalid(d)
            ELSE IF StrLen(description) > MaxDescLen THEN Invalid(d)
            ELSE IF StrLen(name) = 0 THEN Invalid(d)
            ELSE IF ~UserExists(d, req.admin) THEN Invalid(d)
            ELSE IF \E i \in 1..Len(d.teams) : d.teams[i].name = name
                 THEN UniqueConflict(d)
            ELSE Ok([d EXCEPT
                       !.teams = Append(@,
                           [name |-> name,
                            description |-> description,
                            admin_id |-> req.admin.n,
                            creation_time |-> t]),
                       !.members = @ \cup {<<team_id, req.admin.n>>}],
                    team_id)

\* every column is in the SET list
UpdateField_Always(supplied, old, new) == new

\* a column is in the SET list of the UPDATE only when its field is in
\* team_data
UpdateField(supplied, old, new) == IF supplied THEN new ELSE old

update_team(d, req) ==
    LET name == strip(req.name)
        description == strip(req.description)
    IN IF req.name.present /\ StrLen(name) > MaxNameLen THEN Invalid(d)
       ELSE IF req.name.present /\ StrLen(name) = 0 THEN Invalid(d)
       ELSE IF req.description.present /\ StrLen(description) > MaxDescLen
            THEN Invalid(d)
       ELSE IF ~req.name.present /\ ~req.description.present
               /\ ~req.admin.present
            THEN Invalid(d)
       ELSE IF ~TeamExists(d, req.id) THEN Invalid(d)
       ELSE IF req.admin.present /\ ~UserExists(d, req.admin) THEN Invalid(d)
       ELSE IF req.name.present
               /\ \E i \in 1..Len(d.teams) :
                      i # req.id.n /\ d.teams[i].name = name
            THEN UniqueConflict(d)
       ELSE LET old == d.teams[req.id.n]
                new == [old EXCEPT
                          !.name = UpdateField(req.name.present, @, name),
                          !.description =
                              UpdateField(req.description.present, @,
                                          description),
                          !.admin_id =
                              UpdateField(req.admin.present, @, req.admin.n)]
            IN Ok([d EXCEPT !.teams[req.id.n] = new], 0)

\* only the first listed id is looked up
AllUsersExist_FirstOnly(d, ids) ==
    ids = << >> \/ UserExists(d, Head(ids))

\* for user_id in user_ids: SELECT id FROM users WHERE id = ?
RECURSIVE AllUsersExist(_, _)
AllUsersExist(d, ids) ==
    IF ids = << >> THEN TRUE
    ELSE UserExists(d, Head(ids)) /\ AllUsersExist(d, Tail(ids))

\* DELETE FROM team_members WHERE team_id = ? before the INSERTs: the
\* listed users replace the members of the team
InsertMembers_Replace(members, team, ids) ==
    {m \in members : m[1] # team}
        \cup {<<team, ids[i].n>> : i \in DOMAIN ids}

\* for user_id in user_ids: INSERT INTO team_members, an IntegrityError
\* (the pair is already there) being skipped
RECURSIVE InsertMembers(_, _, _)
InsertMembers(members, team, ids) ==
    IF ids = << >> THEN members
    ELSE InsertMembers(members \cup {<<team, Head(ids).n>>}, team, Tail(ids))

add_users_to_team(d, req) ==
    IF ~TeamExists(d, req.id) THEN Invalid(d)
    ELSE IF TeamSize(d, req.id.n) + Len(req.users) > MaxTeamSize
         THEN Invalid(d)
    ELSE IF ~AllUsersExist(d, req.users) THEN Invalid(d)
    ELSE Ok([d EXCEPT !.members = InsertMembers(@, req.id.n, req.users)], 0)

\* only the first listed id is handled
RemoveMembers_FirstOnly(members, team, admin_id, ids) ==
    IF ids = << >> THEN [ok |-> TRUE, members |-> members]
    ELSE IF StrEq(Head(ids), admin_id)
         THEN [ok |-> FALSE, members |-> members]
    ELSE [ok |-> TRUE, members |-> members \ {<<team, Head(ids).n>>}]

\* for user_id in user_ids: raise if str(user_id) == str(admin_id), else
\* DELETE FROM team_members.  The deletions are made in the transaction of
\* the connection; ok = FALSE is the ValidationError raised in the loop.
RECURSIVE RemoveMembers(_, _, _, _)
RemoveMembers(members, team, admin_id, ids) ==
    IF ids = << >> THEN [ok |-> TRUE, members |-> members]
    ELSE IF StrEq(Head(ids), admin_id)
         THEN [ok |-> FALSE, members |-> members]
    ELSE RemoveMembers(members \ {<<team, Head(ids).n>>}, team, admin_id,
                       Tail(ids))

remove_users_from_team(d, req) ==
    IF ~TeamExists(d, req.id) THEN Invalid(d)
    ELSE LET admin_id == d.teams[req.id.n].admin_id
             r == RemoveMembers(d.members, req.id.n, admin_id, req.users)
             tx == [d EXCEPT !.members = r.members]
         IN IF r.ok
            THEN Ok(tx, 0)
            ELSE Invalid(CloseWithoutCommit(d, tx))

----------------------------------------------------------------------------
(* ProjectBoardService *)

\* the boards table has no UNIQUE constraint
SameBoardKey_Never(a, b) == FALSE

\* UNIQUE(name, team_id) of the boards table
SameBoardKey(a, b) == a.name = b.name /\ a.team_id = b.team_id

\* INSERT OR REPLACE: the row that holds the key is overwritten
InsertBoard_Replace(d, row) ==
    IF \E i \in 1..Len(d.boards) : SameBoardKey(d.boards[i], row)
    THEN LET i == CHOOSE i \in 1..Len(d.boards) :
                      SameBoardKey(d.boards[i], row)
         IN Ok([d EXCEPT !.boards[i] = row], i)
    ELSE Ok([d EXCEPT !.boards = Append(@, row)], Len(d.boards) + 1)

\* INSERT INTO boards; status defaults to 'OPEN', end_time to NULL
InsertBoard(d, row) ==
    IF \E i \in 1..Len(d.boards) : SameBoardKey(d.boards[i], row)
    THEN UniqueConflict(d)
    ELSE Ok([d EXCEPT !.boards = Append(@, row)], Len(d.boards) + 1)

create_board(d, req, t) ==
    IF ~req.name.present \/ ~req.description.present THEN Invalid(d)
    ELSE LET name == strip(req.name)
             description == strip(req.description)
             creation_time == IF req.creation_time = NoTime
                              THEN t ELSE req.creation_time
         IN IF StrLen(name) > MaxNameLen THEN Invalid(d)
            ELSE IF StrLen(description) > MaxDescLen THEN Invalid(d)
            ELSE IF StrLen(name) = 0 THEN Invalid(d)
            ELSE IF ~TeamExists(d, req.team_id) THEN Invalid(d)
            ELSE InsertBoard(d, [name |-> name,
                                 description |-> description,
                                 team_id |-> req.team_id.n,
                                 status |-> "OPEN",
                                 creation_time |-> creation_time,
                                 end_time |-> NoTime])

\* ... AND status = 'OPEN'
IncompleteTasks_OnlyOpen(d, board) ==
    Cardinality({i \in 1..Len(d.tasks) :
                    /\ d.tasks[i].board_id = board
                    /\ d.tasks[i].status = "OPEN"})

\* SELECT COUNT(*) FROM tasks WHERE board_id = ? AND status != 'COMPLETE'
IncompleteTasks(d, board) ==
    Cardinality({i \in 1..Len(d.tasks) :
                    /\ d.tasks[i].board_id = board
                    /\ d.tasks[i].status # "COMPLETE"})

\* the status of the board is not looked at
AlreadyClosed_Never(d, v) == FALSE

\* board_row['status'] == 'CLOSED'
AlreadyClosed(d, v) == d.boards[v.n].status = "CLOSED"

\* UPDATE boards SET status = 'CLOSED': end_time stays NULL
CloseRow_StatusOnly(row, t) == [row EXCEPT !.status = "CLOSED"]

\* UPDATE boards SET status = 'CLOSED', end_time = ? (one statement)
CloseRow(row, t) == [row EXCEPT !.status = "CLOSED", !.end_time = t]

close_board(d, req, t) ==
    IF ~BoardExists(d, req.id) THEN Invalid(d)
    ELSE IF AlreadyClosed(d, req.id) THEN Invalid(d)
    ELSE IF IncompleteTasks(d, req.id.n) > 0 THEN Invalid(d)
    ELSE Ok([d EXCEPT !.boards[req.id.n] = CloseRow(@, t)], 0)

\* the status of the board is not looked at
BoardIsOpen_Always(d, v) == TRUE

\* board_row['status'] != 'OPEN' raises
BoardIsOpen(d, v) == d.boards[v.n].status = "OPEN"

\* status TEXT NOT NULL DEFAULT 'OPEN' of the tasks table: the INSERT of
\* add_task names no status
TaskDefaultStatus == "OPEN"

add_task(d, req, t) ==
    IF ~req.title.present \/ ~req.description.present THEN Invalid(d)
    ELSE LET title == strip(req.title)
             description == strip(req.description)
             creation_time == IF req.creation_time = NoTime
                              THEN t ELSE req.creation_time
         IN IF StrLen(title) > MaxNameLen THEN Invalid(d)
            ELSE IF StrLen(description) > MaxDescLen THEN Invalid(d)
            ELSE IF StrLen(title) = 0 THEN Invalid(d)
            ELSE IF ~BoardExists(d, req.board_id) THEN Invalid(d)
            ELSE IF ~BoardIsOpen(d, req.board_id) THEN Invalid(d)
            ELSE IF ~UserExists(d, req.user_id) THEN Invalid(d)
            ELSE IF \E i \in 1..Len(d.tasks) :
                        /\ d.tasks[i].title = title
                        /\ d.tasks[i].board_id = req.board_id.n
                 THEN UniqueConflict(d)
            ELSE Ok([d EXCEPT !.tasks = Append(@,
                        [title |-> title,
                         description |-> description,
                         board_id |-> req.board_id.n,
                         user_id |-> req.user_id.n,
                         status |-> TaskDefaultStatus,
                         creation_time |-> creation_time])],
                    Len(d.tasks) + 1)

\* a further value is accepted
valid_statuses_More == {"OPEN", "IN_PROGRESS", "COMPLETE", "DONE"}

\* valid_statuses = ['OPEN', 'IN_PROGRESS', 'COMPLETE']
valid_statuses == {"OPEN", "IN_PROGRESS", "COMPLETE"}

update_task_status(d, req) ==
    IF req.status \notin valid_statuses THEN Invalid(d)
    ELSE IF ~TaskExists(d, req.id) THEN Invalid(d)
    ELSE Ok([d EXCEPT !.tasks[req.id.n].status = req.status], 0)

\* ... WHERE team_id = ?
OpenBoardsOf_AnyStatus(d, team) ==
    {i \in 1..Len(d.boards) : d.boards[i].team_id = team}

\* ... FROM boards WHERE team_id = ? AND status = 'OPEN'
OpenBoardsOf(d, team) ==
    {i \in 1..Len(d.boards) :
        d.boards[i].team_id = team /\ d.boards[i].status = "OPEN"}

\* ... ORDER BY creation_time: the rows in an order of ascending
\* creation_time; SQL leaves the order of rows with equal creation_time
\* open, so every such order may be returned
OrderByCreationTime(d, rows) ==
    {q \in [1..Cardinality(rows) -> rows] :
        /\ \A i, j \in DOMAIN q : i # j => q[i] # q[j]
        /\ \A i, j \in DOMAIN q :
               i < j => d.boards[q[i]].creation_time
                            <= d.boards[q[j]].creation_time}

\* the outcomes list_boards may have: the {id, name} of the rows selected
list_boards(d, req) ==
    IF ~TeamExists(d, req.id) THEN {Invalid(d)}
    ELSE {Ok(d, [i \in DOMAIN q |->
                    [id |-> q[i], name |-> d.boards[q[i]].name]]) :
             q \in OrderByCreationTime(d, OpenBoardsOf(d, req.id.n))}

\* ... FROM tasks t JOIN users u ON t.user_id = u.id: every task
TasksOfBoard_All(d, board) ==
    {i \in 1..Len(d.tasks) : d.tasks[i].user_id \in 1..Len(d.users)}

\* ... FROM tasks t JOIN users u ON t.user_id = u.id WHERE t.board_id = ?
TasksOfBoard(d, board) ==
    {i \in 1..Len(d.tasks) :
        /\ d.tasks[i].board_id = board
        /\ d.tasks[i].user_id \in 1..Len(d.users)}

\* ... ORDER BY t.creation_time: every order of ascending creation_time
OrderTasksByCreationTime(d, rows) ==
    {q \in [1..Cardinality(rows) -> rows] :
        /\ \A i, j \in DOMAIN q : i # j => q[i] # q[j]
        /\ \A i, j \in DOMAIN q :
               i < j => d.tasks[q[i]].creation_time
                            <= d.tasks[q[j]].creation_time}

\* description or 'No description'
OrNoDescription(s) == IF StrLen(s) = 0 THEN Str("No description") ELSE s

\* the lines of one task: "{i}. {title}", Status, Assigned to,
\* Description, Created
TaskEntry(d, i, row) ==
    [n |-> i,
     title |-> d.tasks[row].title,
     status |-> d.tasks[row].status,
     assigned_to |-> d.users[d.tasks[row].user_id].name,
     description |-> OrNoDescription(d.tasks[row].description),
     created |-> d.tasks[row].creation_time]

\* the export also executes UPDATE boards SET status = 'CLOSED' and
\* commits
export_board_Closing(d, req, t) ==
    IF ~BoardExists(d, req.id) THEN {Invalid(d)}
    ELSE {Ok([d EXCEPT !.boards[req.id.n].status = "CLOSED"], 0)}

\* the outcomes export_board may have: the content written to the file,
\* as the header fields, the entries of the TASKS block, whether the line
\* "No tasks in this board." stands in its place, and the footer's time
export_board(d, req, t) ==
    IF ~BoardExists(d, req.id) THEN {Invalid(d)}
    ELSE IF d.boards[req.id.n].team_id \notin 1..Len(d.teams)
    THEN {Invalid(d)}
    ELSE LET board == d.boards[req.id.n]
         IN {Ok(d, [name |-> board.name,
                    team |-> d.teams[board.team_id].name,
                    description |-> OrNoDescription(board.description),
                    status |-> board.status,
                    created |-> board.creation_time,
                    tasks |-> [i \in DOMAIN q |-> TaskEntry(d, i, q[i])],
                    no_tasks |-> Len(q) = 0,
                    generated |-> t]) :
               q \in OrderTasksByCreationTime(d, TasksOfBoard(d, req.id.n))}

\* the names the users of the model have, in the ascending order of
\* SQLite's comparison of TEXT values
NameOrder == <<"alice", "bob", "carol">>

NameRank(s) == CHOOSE i \in DOMAIN NameOrder : NameOrder[i] = s.body

\* ... ORDER BY u.id
ByName_ById(d, i, j) == i < j

\* ... ORDER BY u.name
ByName(d, i, j) == NameRank(d.users[i].name) < NameRank(d.users[j].name)

\* ... FROM users u INNER JOIN team_members tm ON u.id = tm.user_id
\* WHERE tm.team_id = ?
UsersInTeam(d, team) ==
    {i \in 1..Len(d.users) : <<team, i>> \in d.members}

\* the outcomes list_team_users may have: {id, name, display_name} of the
\* rows selected, in the order of the SELECT
list_team_users(d, req) ==
    IF ~TeamExists(d, req.id) THEN {Invalid(d)}
    ELSE LET rows == UsersInTeam(d, req.id.n)
         IN {Ok(d, [k \in DOMAIN q |->
                       [id |-> q[k],
                        name |-> d.users[q[k]].name,
                        display_name |-> d.users[q[k]].display_name]]) :
               q \in {q \in [1..Cardinality(rows) -> rows] :
                        \A j, k \in DOMAIN q : j < k => ByName(d, q[j], q[k])}}

\* the columns get_user_teams selects of a team
TeamColumns(d, team) ==
    [name |-> d.teams[team].name,
     description |-> d.teams[team].description,
     creation_time |-> d.teams[team].creation_time]

\* ... FROM teams t LEFT JOIN team_members tm ON t.id = tm.team_id
\* WHERE t.admin_id = ? OR tm.user_id = ?: one row for each membership row
\* of a team, and one with tm.user_id NULL (0) for a team without any
JoinedTeamRows(d, v) ==
    {[team |-> t, user_id |-> m, val |-> TeamColumns(d, t)] :
        <<t, m>> \in {x \in (1..Len(d.teams)) \X (0..Len(d.users)) :
            /\ \/ <<x[1], x[2]>> \in d.members
               \/ x[2] = 0 /\ ~\E u \in 1..Len(d.users) :
                                  <<x[1], u>> \in d.members
            /\ \/ SqlEq(d.teams[x[1]].admin_id, v)
               \/ x[2] # 0 /\ SqlEq(x[2], v)}}

\* SELECT t.name, t.description, t.creation_time: a row for every joined
\* row
Distinct_All(rows) == rows

\* SELECT DISTINCT t.name, t.description, t.creation_time: a row for every
\* value of the three columns
Distinct(rows) ==
    {[team |-> 0, user_id |-> 0, val |-> v] : v \in {r.val : r \in rows}}

\* the outcomes get_user_teams may have: {name, description,
\* creation_time} of the rows selected, ORDER BY t.creation_time
get_user_teams(d, req) ==
    IF ~UserExists(d, req.id) THEN {Invalid(d)}
    ELSE LET rows == Distinct(JoinedTeamRows(d, req.id))
         IN {Ok(d, [k \in DOMAIN q |-> q[k].val]) :
               q \in {q \in [1..Cardinality(rows) -> rows] :
                        /\ \A j, k \in DOMAIN q : j # k => q[j] # q[k]
                        /\ \A j, k \in DOMAIN q :
                               j < k => q[j].val.creation_time
                                            <= q[k].val.creation_time}}

\* SELECT name, display_name, creation_time FROM users WHERE id = ?; the
\* display_name is returned under the key "description"
describe_user(d, req) ==
    IF ~req.id.present THEN Invalid(d)
    ELSE IF ~UserExists(d, req.id) THEN Invalid(d)
    ELSE Ok(d, [name |-> d.users[req.id.n].name,
                description |-> d.users[req.id.n].display_name,
                creation_time |-> d.users[req.id.n].creation_time])

\* SELECT name, description, creation_time, admin_id FROM teams WHERE id = ?
describe_team(d, req) ==
    IF ~req.id.present THEN Invalid(d)
    ELSE IF ~TeamExists(d, req.id) THEN Invalid(d)
    ELSE Ok(d, [name |-> d.teams[req.id.n].name,
                description |-> d.teams[req.id.n].description,
                creation_time |-> d.teams[req.id.n].creation_time,
                admin |-> d.teams[req.id.n].admin_id])

\* an id given as a JSON integer outside the range of SQLite's 64-bit
\* INTEGER (2^63 or more); it names no row, and n is never compared
IdWide == [present |-> TRUE, n |-> 0, canon |-> TRUE, wide |-> TRUE]

\* sqlite3 can bind the value as a parameter of a statement
Fits(v) == "wide" \notin DOMAIN v

\* cursor.execute(... WHERE id = ?, (id,)), the first statement of an
\* operation whose request passed the checks made before the connection
\* is opened: binding an integer that does not fit raises OverflowError,
\* which the handler of the operation reports as DatabaseError; r is the
\* outcome with an id that can be bound
ExecuteWithId(d, v, r) == IF Fits(v) THEN r ELSE Broken(d)

\* SELECT name, display_name, creation_time FROM users
\* ORDER BY creation_time
list_users(d) ==
    {Ok(d, [k \in DOMAIN q |-> d.users[q[k]]]) :
        q \in {q \in [1..Len(d.users) -> 1..Len(d.users)] :
                 /\ \A j, k \in DOMAIN q : j # k => q[j] # q[k]
                 /\ \A j, k \in DOMAIN q :
                        j < k => d.users[q[j]].creation_time
                                     <= d.users[q[k]].creation_time}}

\* SELECT name, description, creation_time, admin_id FROM teams
\* ORDER BY creation_time
list_teams(d) ==
    {Ok(d, [k \in DOMAIN q |->
               [name |-> d.teams[q[k]].name,
                description |-> d.teams[q[k]].description,
                creation_time |-> d.teams[q[k]].creation_time,
                admin |-> d.teams[q[k]].admin_id]]) :
        q \in {q \in [1..Len(d.teams) -> 1..Len(d.teams)] :
                 /\ \A j, k \in DOMAIN q : j # k => q[j] # q[k]
                 /\ \A j, k \in DOMAIN q :
                        j < k => d.teams[q[j]].creation_time
                                     <= d.teams[q[k]].creation_time}}

(* The text of a request.  wellformed tells whether the text is a JSON    *)
(* document; deep, whether it nests arrays or objects so far that          *)
(* json.loads reaches the interpreter's recursion limit before the end of  *)
(* the text or its first syntax error; kind, the value a well-formed text  *)
(* denotes.                                                                *)
ObjectText     == [wellformed |-> TRUE, deep |-> FALSE, kind |-> "object"]
EmptyArrayText == [wellformed |-> TRUE, deep |-> FALSE, kind |-> "array"]
NumberText     == [wellformed |-> TRUE, deep |-> FALSE, kind |-> "number"]
MalformedText  == [wellformed |-> FALSE, deep |-> FALSE, kind |-> "none"]
DeepText       == [wellformed |-> FALSE, deep |-> TRUE, kind |-> "none"]

\* json.loads(data); except json.JSONDecodeError: raise ValidationError.
\* The result is the kind of the value, or the exception raised.
validate_json_input(text) ==
    IF text.deep THEN "RecursionError"
    ELSE IF ~text.wellformed THEN "ValidationError"
    ELSE text.kind

\* The body of an operation, r being its outcome for the object the text
\* denotes: ValidationError is re-raised, every other exception is raised
\* as DatabaseError (except Exception); the test "'key' not in data" finds
\* no key in an empty array and raises TypeError for a number.
Handled(d, text, r) ==
    LET data == validate_json_input(text)
    IN CASE data = "ValidationError" -> Invalid(d)
         [] data = "RecursionError"  -> Broken(d)
         [] data = "number"          -> Broken(d)
         [] data = "array"           -> Invalid(d)
         [] OTHER                    -> r

----------------------------------------------------------------------------
(* Requests offered to the operations *)

\* identifiers naming rows 1..k, one that names no row, and for each row a
\* spelling of its number that str() does not print canonically ('01')
Ids(k)      == {Id(n) : n \in 1..(k + 1)}
IdInputs(k) == Ids(k) \cup {IdAlt(n) : n \in 1..k}

RECURSIVE SeqsUpTo(_, _)
SeqsUpTo(S, k) ==
    IF k = 0 THEN {<< >>}
    ELSE LET shorter == SeqsUpTo(S, k - 1)
         IN shorter \cup {Append(q, x) : q \in shorter, x \in S}

UserNameInputs  == {Str("alice"), Str("bob"), Padded("alice"), Str(""),
                    Str("L65"), Missing}
DisplayInputs   == {Str("Al"), Padded("")}
DisplayUpdates  == {Str("Bo"), Padded("Bo"), Str("L128"), Str("L129"),
                    Padded(""), Missing}
TeamNameInputs  == {Str("eng"), Padded("ops"), Str("")}
DescInputs      == {Str(""), Str("L129")}
\* user ids listed in a batch: rows 1 and 2, '01', and an id naming no user
BatchIds        == {Id(1), Id(2), IdAlt(1), Id(MaxUsers + 1)}
Batches         == SeqsUpTo(BatchIds, MaxBatch)
BoardNameInputs == {Str("b1"), Padded("b2"), Str("L65")}
TitleInputs     == {Str("t1"), Padded("t2"), Str("")}
StatusInputs    == valid_statuses \cup {"DONE"}
TimeInputs      == {NoTime, 0}

----------------------------------------------------------------------------
(* One operation per step *)

NoConns == << >>

NoOp == [op |-> "none", req |-> << >>, res |-> "none", out |-> 0]

\* a table grows only up to its bound
WithinBounds(d, e) ==
    /\ Len(e.users) > Len(d.users) => Len(e.users) <= MaxUsers
    /\ Len(e.teams) > Len(d.teams) => Len(e.teams) <= MaxTeams
    /\ Len(e.boards) > Len(d.boards) => Len(e.boards) <= MaxBoards
    /\ Len(e.tasks) > Len(d.tasks) => Len(e.tasks) <= MaxTasks

\* The operation op, called with req while no response is pending, ends
\* with outcome r; prev keeps the store as it was when the call started.
Do(op, req, r) ==
    /\ last = NoOp
    /\ WithinBounds(db, r.db)
    /\ db' = r.db
    /\ prev' = db
    /\ last' = [op |-> op, req |-> req, res |-> r.res, out |-> r.out]
    /\ UNCHANGED <<now, conns, writer>>

\* the same, the boards table growing up to MaxListed rows
DoListed(op, req, r) ==
    /\ last = NoOp
    /\ Len(r.db.boards) <= MaxListed
    /\ db' = r.db
    /\ prev' = db
    /\ last' = [op |-> op, req |-> req, res |-> r.res, out |-> r.out]
    /\ UNCHANGED <<now, conns, writer>>

\* the same, every table growing up to MaxSame rows
DoSame(op, req, r) ==
    /\ last = NoOp
    /\ Len(r.db.users) <= MaxSame /\ Len(r.db.teams) <= MaxSame
    /\ Len(r.db.boards) <= MaxSame /\ Len(r.db.tasks) <= MaxSame
    /\ db' = r.db
    /\ prev' = db
    /\ last' = [op |-> op, req |-> req, res |-> r.res, out |-> r.out]
    /\ UNCHANGED <<now, conns, writer>>

\* The response of the last operation is handed to the caller.
Return ==
    /\ last # NoOp
    /\ last' = NoOp
    /\ prev' = db
    /\ UNCHANGED <<db, now, conns, writer>>

\* get_current_timestamp() returns a later value
Tick ==
    /\ last = NoOp
    /\ now < MaxTime
    /\ now' = now + 1
    /\ UNCHANGED <<db, prev, last, conns, writer>>

CreateUser ==
    \E name \in UserNameInputs, display_name \in DisplayInputs :
        LET req == [name |-> name, display_name |-> display_name]
        IN Do("create_user", req, create_user(db, req, now))

UpdateUser ==
    \E id \in IdInputs(MaxUsers), display_name \in DisplayUpdates,
       name \in {Missing, Str("carol")} :
        LET req == [id |-> id, display_name |-> display_name, name |-> name]
        IN Do("update_user", req, update_user(db, req))

CreateTeam ==
    \E name \in TeamNameInputs, description \in DescInputs,
       admin \in {NoId, Id(1), IdAlt(2), Id(MaxUsers + 1)} :
        LET req == [name |-> name, description |-> description,
                    admin |-> admin]
        IN Do("create_team", req, create_team(db, req, now))

UpdateTeam ==
    \E id \in Ids(MaxTeams),
       name \in {Missing, Str("eng"), Str("ops")},
       description \in {Missing, Str("d2")},
       admin \in {NoId, Id(1), IdAlt(2), Id(MaxUsers + 1)} :
        LET req == [id |-> id, name |-> name, description |-> description,
                    admin |-> admin]
        IN Do("update_team", req, update_team(db, req))

AddUsers(batches) ==
    \E id \in Ids(MaxTeams), users \in batches :
        LET req == [id |-> id, users |-> users]
        IN Do("add_users_to_team", req, add_users_to_team(db, req))

RemoveUsers(batches) ==
    \E id \in Ids(MaxTeams), users \in batches :
        LET req == [id |-> id, users |-> users]
        IN Do("remove_users_from_team", req, remove_users_from_team(db, req))

AddUsersToTeam == AddUsers(Batches)

RemoveUsersFromTeam == RemoveUsers(Batches)

CreateBoard ==
    \E name \in BoardNameInputs, team_id \in Ids(Len(db.teams)),
       creation_time \in TimeInputs :
        LET req == [name |-> name, description |-> Str(""),
                    team_id |-> team_id, creation_time |-> creation_time]
        IN Do("create_board", req, create_board(db, req, now))

CloseBoard ==
    \E id \in IdInputs(MaxBoards) :
        LET req == [id |-> id]
        IN Do("close_board", req, close_board(db, req, now))

AddTask ==
    \E title \in TitleInputs, user_id \in {Id(1), Id(MaxUsers + 1)},
       board_id \in Ids(MaxBoards), creation_time \in {NoTime} :
        LET req == [title |-> title, description |-> Str(""),
                    user_id |-> user_id, board_id |-> board_id,
                    creation_time |-> creation_time]
        IN Do("add_task", req, add_task(db, req, now))

UpdateTaskStatus ==
    \E id \in Ids(MaxTasks), status \in StatusInputs :
        LET req == [id |-> id, status |-> status]
        IN Do("update_task_status", req, update_task_status(db, req))

----------------------------------------------------------------------------
(* Spec: users, teams and membership, from the empty store *)

Init ==
    /\ db = EmptyDb
    /\ prev = EmptyDb
    /\ last = NoOp
    /\ now = 0
    /\ conns = NoConns
    /\ writer = 0

Next ==
    \/ Return
    \/ CreateUser
    \/ CreateTeam
    \/ UpdateTeam
    \/ AddUsersToTeam
    \/ RemoveUsersFromTeam

Spec == Init /\ [][Next]_vars

----------------------------------------------------------------------------
(* SpecUser: creation and update of users, from the empty store *)

NextUser ==
    \/ Return
    \/ CreateUser
    \/ UpdateUser

SpecUser == Init /\ [][NextUser]_vars

----------------------------------------------------------------------------
(* SpecBoard: boards and tasks of a team that already exists *)

Users2 ==
    << [name |-> Str("alice"), display_name |-> Str("Al"),
        creation_time |-> 0],
       [name |-> Str("bob"), display_name |-> Str("Bo"),
        creation_time |-> 0] >>

TeamDb ==
    [EmptyDb EXCEPT
        !.users = Users2,
        !.teams = << [name |-> Str("eng"), description |-> Str(""),
                      admin_id |-> 1, creation_time |-> 0] >>,
        !.members = {<<1, 1>>}]

InitBoard ==
    /\ db = TeamDb
    /\ prev = TeamDb
    /\ last = NoOp
    /\ now = 0
    /\ conns = NoConns
    /\ writer = 0

NextBoard ==
    \/ Return
    \/ Tick
    \/ CreateBoard
    \/ CloseBoard
    \/ AddTask
    \/ UpdateTaskStatus

SpecBoard == InitBoard /\ [][NextBoard]_vars

----------------------------------------------------------------------------
(* SpecAll: every writing operation, on the store of SpecBoard *)

NextAll ==
    \/ Return
    \/ CreateUser
    \/ UpdateUser
    \/ CreateTeam
    \/ UpdateTeam
    \/ AddUsersToTeam
    \/ RemoveUsersFromTeam
    \/ CreateBoard
    \/ CloseBoard
    \/ AddTask
    \/ UpdateTaskStatus

SpecAll == InitBoard /\ [][NextAll]_vars

----------------------------------------------------------------------------
(* SpecList: boards of two teams created, closed and listed; the clock    *)
(* stands at 1, so that a board created without a creation_time is later   *)
(* than one created with the creation_time 0                               *)

TwoTeamDb ==
    [TeamDb EXCEPT
        !.teams = Append(@, [name |-> Str("ops"), description |-> Str(""),
                             admin_id |-> 2, creation_time |-> 0]),
        !.members = @ \cup {<<2, 2>>}]

InitList ==
    /\ db = TwoTeamDb
    /\ prev = TwoTeamDb
    /\ last = NoOp
    /\ now = 1
    /\ conns = NoConns
    /\ writer = 0

CreateListedBoard ==
    \E name \in BoardNameInputs, team_id \in Ids(Len(db.teams)),
       creation_time \in TimeInputs :
        LET req == [name |-> name, description |-> Str(""),
                    team_id |-> team_id, creation_time |-> creation_time]
        IN DoListed("create_board", req, create_board(db, req, now))

ListBoards ==
    \E id \in {Id(1), IdAlt(2), Id(3)} :
        LET req == [id |-> id]
        IN \E r \in list_boards(db, req) : Do("list_boards", req, r)

NextList ==
    \/ Return
    \/ CreateListedBoard
    \/ CloseBoard
    \/ ListBoards

SpecList == InitList /\ [][NextList]_vars

----------------------------------------------------------------------------
(* SpecTeams: update of and membership in two existing teams *)

InitTeams ==
    /\ db = TwoTeamDb
    /\ prev = TwoTeamDb
    /\ last = NoOp
    /\ now = 0
    /\ conns = NoConns
    /\ writer = 0

NextTeams ==
    \/ Return
    \/ UpdateTeam
    \/ AddUsersToTeam
    \/ RemoveUsersFromTeam

SpecTeams == InitTeams /\ [][NextTeams]_vars

----------------------------------------------------------------------------
(* SpecUnique: rows created and renamed with names that are new, or are   *)
(* those of existing rows, also in a padded spelling                       *)

SoloDb ==
    [EmptyDb EXCEPT
        !.users = << [name |-> Str("alice"), display_name |-> Str("Al"),
                      creation_time |-> 0] >>,
        !.teams = << [name |-> Str("eng"), description |-> Str(""),
                      admin_id |-> 1, creation_time |-> 0] >>,
        !.members = {<<1, 1>>}]

InitUnique ==
    /\ db = SoloDb
    /\ prev = SoloDb
    /\ last = NoOp
    /\ now = 0
    /\ conns = NoConns
    /\ writer = 0

CreateUserSameName ==
    \E name \in {Padded("alice"), Str("bob")} :
        LET req == [name |-> name, display_name |-> Str("Al")]
        IN DoSame("create_user", req, create_user(db, req, now))

CreateTeamSameName ==
    \E name \in {Padded("eng"), Str("ops")} :
        LET req == [name |-> name, description |-> Str(""), admin |-> Id(1)]
        IN DoSame("create_team", req, create_team(db, req, now))

RenameTeam ==
    \E id \in {Id(1), Id(2)}, name \in {Str("eng"), Padded("ops")} :
        LET req == [id |-> id, name |-> name, description |-> Missing,
                    admin |-> NoId]
        IN DoSame("update_team", req, update_team(db, req))

CreateBoardSameName ==
    \E name \in {Str("b1"), Padded("b1"), Str("b2")},
       team_id \in {Id(1), IdAlt(2)} :
        LET req == [name |-> name, description |-> Str(""),
                    team_id |-> team_id, creation_time |-> NoTime]
        IN DoSame("create_board", req, create_board(db, req, now))

AddTaskSameTitle ==
    \E title \in {Str("t1"), Padded("t1"), Str("t2")},
       board_id \in {Id(1), Id(2)} :
        LET req == [title |-> title, description |-> Str(""),
                    user_id |-> Id(1), board_id |-> board_id,
                    creation_time |-> NoTime]
        IN DoSame("add_task", req, add_task(db, req, now))

NextUnique ==
    \/ Return
    \/ CreateUserSameName
    \/ CreateTeamSameName
    \/ RenameTeam
    \/ CreateBoardSameName
    \/ AddTaskSameTitle

SpecUnique == InitUnique /\ [][NextUnique]_vars

----------------------------------------------------------------------------
(* SpecCap: a team one member short of the maximum team size, in a store  *)
(* that holds more users than a team may have                              *)

CapUsers == MaxTeamSize + 2

CapDb ==
    [EmptyDb EXCEPT
        !.users = [i \in 1..CapUsers |->
                      [name |-> Str(ToString(i)), display_name |-> Str("Al"),
                       creation_time |-> 0]],
        !.teams = << [name |-> Str("eng"), description |-> Str(""),
                      admin_id |-> 1, creation_time |-> 0] >>,
        !.members = {<<1, u>> : u \in 1..(MaxTeamSize - 1)}]

\* the admin, two members, and three users who are not members
CapBatchIds ==
    {Id(1), Id(MaxTeamSize - 2), Id(MaxTeamSize - 1), Id(MaxTeamSize),
     Id(MaxTeamSize + 1), Id(MaxTeamSize + 2)}

CapBatches == SeqsUpTo(CapBatchIds, MaxBatch)

InitCap ==
    /\ db = CapDb
    /\ prev = CapDb
    /\ last = NoOp
    /\ now = 0
    /\ conns = NoConns
    /\ writer = 0

AddUsersToLargeTeam == AddUsers(CapBatches)

RemoveUsersFromLargeTeam == RemoveUsers(CapBatches)

NextCap ==
    \/ Return
    \/ AddUsersToLargeTeam
    \/ RemoveUsersFromLargeTeam

SpecCap == InitCap /\ [][NextCap]_vars

----------------------------------------------------------------------------
(* SpecConc: operations of several connections, one SQL statement per     *)
(* step.  A connection reads the committed store until its first INSERT,   *)
(* which opens a transaction (sqlite3's implicit BEGIN) and takes SQLite's *)
(* write lock; from then on it reads and writes its own copy tx, which     *)
(* commit() publishes and close() without commit() discards.               *)

Procs == 1..MaxConns

Idle ==
    [pc |-> "idle", op |-> "none", req |-> << >>, tx |-> EmptyDb,
     t |-> 0, i |-> 0, res |-> "none", out |-> 0]

UsersDb == [EmptyDb EXCEPT !.users = Users2]

InitConc ==
    /\ db = UsersDb
    /\ prev = UsersDb
    /\ last = NoOp
    /\ now = 0
    /\ conns = [p \in Procs |-> Idle]
    /\ writer = 0

\* what the other connections can read after a statement of a connection
\* whose transaction holds tx: with autocommit every statement is published
Published_Autocommit(d, tx) == tx

\* sqlite3.connect() with the default isolation level: the statements of
\* an open transaction are not visible to other connections
Published(d, tx) == d

\* no write lock at all: every connection writes when it wants to
WriteLockFree_Always(w) == TRUE

\* SQLite grants the write lock of the database file to one connection at
\* a time: an INSERT proceeds when no other transaction holds it
WriteLockFree(w) == w = 0

\* the connection is closed (finally: conn.close()) and the call ends
Finished(c, res, out) ==
    [c EXCEPT !.pc = "done", !.res = res, !.out = out, !.tx = EmptyDb,
              !.i = 0]

ConcTeamReqs ==
    {[name |-> name, description |-> Str(""), admin |-> admin] :
        name \in {Str("eng"), Padded("ops"), Str("")},
        admin \in {Id(1), IdAlt(2), Id(MaxUsers + 1)}}

\* create_team up to the opening of the connection: request validation
\* and get_current_timestamp()
StartCreateTeam(p) ==
    /\ conns[p].pc = "idle"
    /\ Len(db.teams) < MaxTeams
    /\ \E req \in ConcTeamReqs :
          LET name == strip(req.name)
              description == strip(req.description)
              c == [Idle EXCEPT !.op = "create_team", !.req = req, !.t = now]
          IN conns' = [conns EXCEPT ![p] =
                 IF \/ StrLen(name) > MaxNameLen
                    \/ StrLen(description) > MaxDescLen
                    \/ StrLen(name) = 0
                 THEN Finished(c, "validation", 0)
                 ELSE [c EXCEPT !.pc = "check_admin"]]
    /\ UNCHANGED <<db, prev, last, now, writer>>

\* SELECT id FROM users WHERE id = ? (admin)
CreateTeamCheckAdmin(p) ==
    /\ conns[p].op = "create_team" /\ conns[p].pc = "check_admin"
    /\ conns' = [conns EXCEPT ![p] =
           IF UserExists(db, @.req.admin)
           THEN [@ EXCEPT !.pc = "insert_team"]
           ELSE Finished(@, "validation", 0)]
    /\ UNCHANGED <<db, prev, last, now, writer>>

\* INSERT INTO teams: takes the write lock; a duplicate name raises
\* IntegrityError and the connection is closed without commit
CreateTeamInsertTeam(p) ==
    /\ conns[p].op = "create_team" /\ conns[p].pc = "insert_team"
    /\ WriteLockFree(writer)
    /\ LET c == conns[p]
           name == strip(c.req.name)
           description == strip(c.req.description)
           tx == [db EXCEPT !.teams = Append(@,
                     [name |-> name, description |-> description,
                      admin_id |-> c.req.admin.n, creation_time |-> c.t])]
       IN IF \E i \in 1..Len(db.teams) : db.teams[i].name = name
          THEN /\ conns' = [conns EXCEPT ![p] =
                      Finished(c, UniqueConflict(db).res, 0)]
               /\ UNCHANGED <<db, writer>>
          ELSE /\ conns' = [conns EXCEPT ![p] =
                      [c EXCEPT !.pc = "insert_member", !.tx = tx,
                                !.out = Len(tx.teams)]]
               /\ writer' = p
               /\ db' = Published(db, tx)
    /\ UNCHANGED <<prev, last, now>>

\* INSERT INTO team_members (team_id, admin_id)
CreateTeamInsertMember(p) ==
    /\ conns[p].op = "create_team" /\ conns[p].pc = "insert_member"
    /\ LET c == conns[p]
           tx == [c.tx EXCEPT !.members = @ \cup {<<c.out, c.req.admin.n>>}]
       IN /\ conns' = [conns EXCEPT ![p] = [c EXCEPT !.pc = "commit",
                                                     !.tx = tx]]
          /\ db' = Published(db, tx)
    /\ UNCHANGED <<prev, last, now, writer>>

\* conn.commit()
CreateTeamCommit(p) ==
    /\ conns[p].op = "create_team" /\ conns[p].pc = "commit"
    /\ db' = conns[p].tx
    /\ writer' = 0
    /\ conns' = [conns EXCEPT ![p] = Finished(@, "success", @.out)]
    /\ UNCHANGED <<prev, last, now>>

\* another connection holds the write lock until the busy timeout of
\* sqlite3.connect() expires: OperationalError, reported as DatabaseError
Busy(p) ==
    /\ conns[p].pc = "insert_team"
    /\ writer \notin {0, p}
    /\ conns' = [conns EXCEPT ![p] = Finished(@, "storage", 0)]
    /\ UNCHANGED <<db, prev, last, now, writer>>

\* list_team_users up to the opening of the connection
StartListTeamUsers(p) ==
    /\ conns[p].pc = "idle"
    /\ \E id \in Ids(MaxTeams + 1) :
          conns' = [conns EXCEPT ![p] =
              [Idle EXCEPT !.op = "list_team_users", !.req = [id |-> id],
                           !.pc = "check_team"]]
    /\ UNCHANGED <<db, prev, last, now, writer>>

\* SELECT id FROM teams WHERE id = ?
ListTeamUsersCheckTeam(p) ==
    /\ conns[p].op = "list_team_users" /\ conns[p].pc = "check_team"
    /\ conns' = [conns EXCEPT ![p] =
           IF TeamExists(db, @.req.id)
           THEN [@ EXCEPT !.pc = "select_members"]
           ELSE Finished(@, "validation", 0)]
    /\ UNCHANGED <<db, prev, last, now, writer>>

\* SELECT u.id ... FROM users u INNER JOIN team_members tm ...
\* WHERE tm.team_id = ?  (the ids of the rows returned)
ListTeamUsersSelect(p) ==
    /\ conns[p].op = "list_team_users" /\ conns[p].pc = "select_members"
    /\ conns' = [conns EXCEPT ![p] =
           Finished(@, "success",
                    {m[2] : m \in {x \in db.members :
                                     /\ x[1] = conns[p].req.id.n
                                     /\ x[2] \in 1..Len(db.users)}})]
    /\ UNCHANGED <<db, prev, last, now, writer>>

\* the response is handed to the caller
ReturnConc(p) ==
    /\ conns[p].pc = "done"
    /\ conns' = [conns EXCEPT ![p] = Idle]
    /\ UNCHANGED <<db, prev, last, now, writer>>

NextConc ==
    \E p \in Procs :
        \/ StartCreateTeam(p)
        \/ CreateTeamCheckAdmin(p)
        \/ CreateTeamInsertTeam(p)
        \/ CreateTeamInsertMember(p)
        \/ CreateTeamCommit(p)
        \/ Busy(p)
        \/ StartListTeamUsers(p)
        \/ ListTeamUsersCheckTeam(p)
        \/ ListTeamUsersSelect(p)
        \/ ReturnConc(p)

SpecConc == InitConc /\ [][NextConc]_vars

----------------------------------------------------------------------------
(* SpecCapConc: add_users_to_team of several connections, one SQL         *)
(* statement per step, on the team of SpecCap.  The SELECT statements read *)
(* the committed store; the first INSERT opens the transaction.            *)

InitCapConc ==
    /\ db = CapDb
    /\ prev = CapDb
    /\ last = NoOp
    /\ now = 0
    /\ conns = [p \in Procs |-> Idle]
    /\ writer = 0

\* batches of users who are not members, one batch naming no user, and a
\* request on a team that does not exist
ConcAddReqs ==
    {[id |-> Id(1), users |-> users] :
        users \in {<<Id(MaxTeamSize)>>, <<Id(MaxTeamSize + 1)>>,
                   <<Id(MaxTeamSize), Id(MaxTeamSize + 1)>>,
                   <<Id(CapUsers + 1)>>}}
    \cup {[id |-> Id(2), users |-> <<Id(MaxTeamSize)>>]}

\* add_users_to_team up to the opening of the connection
StartAddUsers(p) ==
    /\ conns[p].pc = "idle"
    /\ \E req \in ConcAddReqs :
          conns' = [conns EXCEPT ![p] =
              [Idle EXCEPT !.op = "add_users_to_team", !.req = req,
                           !.pc = "check_team"]]
    /\ UNCHANGED <<db, prev, last, now, writer>>

\* SELECT id FROM teams WHERE id = ?
AddUsersCheckTeam(p) ==
    /\ conns[p].op = "add_users_to_team" /\ conns[p].pc = "check_team"
    /\ conns' = [conns EXCEPT ![p] =
           IF TeamExists(db, @.req.id)
           THEN [@ EXCEPT !.pc = "count"]
           ELSE Finished(@, "validation", 0)]
    /\ UNCHANGED <<db, prev, last, now, writer>>

\* SELECT COUNT(*) FROM team_members WHERE team_id = ?, and the comparison
\* of current_size + len(user_ids) with the maximum team size
AddUsersCount(p) ==
    /\ conns[p].op = "add_users_to_team" /\ conns[p].pc = "count"
    /\ conns' = [conns EXCEPT ![p] =
           IF TeamSize(db, @.req.id.n) + Len(@.req.users) > MaxTeamSize
           THEN Finished(@, "validation", 0)
           ELSE [@ EXCEPT !.pc = "check_user", !.i = 1]]
    /\ UNCHANGED <<db, prev, last, now, writer>>

\* SELECT id FROM users WHERE id = ? for the i-th listed id
AddUsersCheckUser(p) ==
    /\ conns[p].op = "add_users_to_team" /\ conns[p].pc = "check_user"
    /\ LET c == conns[p]
       IN conns' = [conns EXCEPT ![p] =
              IF ~UserExists(db, c.req.users[c.i])
              THEN Finished(c, "validation", 0)
              ELSE IF c.i < Len(c.req.users)
                   THEN [c EXCEPT !.i = c.i + 1]
                   ELSE [c EXCEPT !.pc = "insert", !.i = 1]]
    /\ UNCHANGED <<db, prev, last, now, writer>>

\* INSERT INTO team_members for the i-th listed id; the first INSERT opens
\* the transaction on the committed store and takes the write lock
AddUsersInsert(p) ==
    /\ conns[p].op = "add_users_to_team" /\ conns[p].pc = "insert"
    /\ writer \in {0, p}
    /\ LET c == conns[p]
           base == IF writer = p THEN c.tx ELSE db
           tx == [base EXCEPT !.members =
                     InsertMembers(@, c.req.id.n, <<c.req.users[c.i]>>)]
       IN /\ conns' = [conns EXCEPT ![p] =
                 IF c.i < Len(c.req.users)
                 THEN [c EXCEPT !.tx = tx, !.i = c.i + 1]
                 ELSE [c EXCEPT !.tx = tx, !.pc = "commit"]]
          /\ db' = Published(db, tx)
    /\ writer' = p
    /\ UNCHANGED <<prev, last, now>>

\* conn.commit()
AddUsersCommit(p) ==
    /\ conns[p].op = "add_users_to_team" /\ conns[p].pc = "commit"
    /\ db' = conns[p].tx
    /\ writer' = 0
    /\ conns' = [conns EXCEPT ![p] = Finished(@, "success", 0)]
    /\ UNCHANGED <<prev, last, now>>

\* sqlite3.connect(timeout = infinity): a statement waits for the write
\* lock as long as another connection holds it
LockTimeout_Never(w, p) == FALSE

\* sqlite3.connect() with the default timeout of five seconds: a statement
\* of connection p that waits for the write lock held by another
\* connection gives up with OperationalError
LockTimeout(w, p) == w \notin {0, p}

\* another connection holds the write lock until the busy timeout expires
AddUsersBusy(p) ==
    /\ conns[p].op = "add_users_to_team" /\ conns[p].pc = "insert"
    /\ LockTimeout(writer, p)
    /\ conns' = [conns EXCEPT ![p] = Finished(@, "storage", 0)]
    /\ UNCHANGED <<db, prev, last, now, writer>>

NextCapConc ==
    \E p \in Procs :
        \/ StartAddUsers(p)
        \/ AddUsersCheckTeam(p)
        \/ AddUsersCount(p)
        \/ AddUsersCheckUser(p)
        \/ AddUsersInsert(p)
        \/ AddUsersCommit(p)
        \/ AddUsersBusy(p)
        \/ ReturnConc(p)

SpecCapConc == InitCapConc /\ [][NextCapConc]_vars

----------------------------------------------------------------------------
(* SpecRace: create_user and create_team of several connections, one SQL  *)
(* statement per step, in a store that holds one user                      *)

AliceDb == [EmptyDb EXCEPT !.users = <<Users2[1]>>]

InitRace ==
    /\ db = AliceDb
    /\ prev = AliceDb
    /\ last = NoOp
    /\ now = 0
    /\ conns = [p \in Procs |-> Idle]
    /\ writer = 0

\* a new name in two spellings, the name of an existing user, and an
\* empty name
ConcUserReqs ==
    {[name |-> name, display_name |-> Str("Al")] :
        name \in {Str("bob"), Padded("bob"), Str("alice"), Str("")}}

\* create_user up to the opening of the connection: request validation
\* and get_current_timestamp()
StartCreateUser(p) ==
    /\ conns[p].pc = "idle"
    /\ Len(db.users) < MaxUsers
    /\ \E req \in ConcUserReqs :
          LET name == strip(req.name)
              display_name == strip(req.display_name)
              c == [Idle EXCEPT !.op = "create_user", !.req = req, !.t = now]
          IN conns' = [conns EXCEPT ![p] =
                 IF \/ StrLen(name) > MaxNameLen
                    \/ StrLen(display_name) > MaxNameLen
                    \/ StrLen(name) = 0
                    \/ StrLen(display_name) = 0
                 THEN Finished(c, "validation", 0)
                 ELSE [c EXCEPT !.pc = "insert_user"]]
    /\ UNCHANGED <<db, prev, last, now, writer>>

\* INSERT INTO users: takes the write lock; a duplicate name raises
\* IntegrityError and the connection is closed without commit
CreateUserInsert(p) ==
    /\ conns[p].op = "create_user" /\ conns[p].pc = "insert_user"
    /\ WriteLockFree(writer)
    /\ LET c == conns[p]
           name == strip(c.req.name)
           display_name == strip(c.req.display_name)
           tx == [db EXCEPT !.users = Append(@,
                     [name |-> name, display_name |-> display_name,
                      creation_time |-> c.t])]
       IN IF \E i \in 1..Len(db.users) : db.users[i].name = name
          THEN /\ conns' = [conns EXCEPT ![p] =
                      Finished(c, UniqueConflict(db).res, 0)]
               /\ UNCHANGED <<db, writer>>
          ELSE /\ conns' = [conns EXCEPT ![p] =
                      [c EXCEPT !.pc = "commit_user", !.tx = tx,
                                !.out = Len(tx.users)]]
               /\ writer' = p
               /\ db' = Published(db, tx)
    /\ UNCHANGED <<prev, last, now>>

\* conn.commit()
CreateUserCommit(p) ==
    /\ conns[p].op = "create_user" /\ conns[p].pc = "commit_user"
    /\ db' = conns[p].tx
    /\ writer' = 0
    /\ conns' = [conns EXCEPT ![p] = Finished(@, "success", @.out)]
    /\ UNCHANGED <<prev, last, now>>

\* another connection holds the write lock until the busy timeout of
\* sqlite3.connect() expires: OperationalError, reported as DatabaseError
CreateUserBusy(p) ==
    /\ conns[p].op = "create_user" /\ conns[p].pc = "insert_user"
    /\ writer \notin {0, p}
    /\ conns' = [conns EXCEPT ![p] = Finished(@, "storage", 0)]
    /\ UNCHANGED <<db, prev, last, now, writer>>

NextRace ==
    \E p \in Procs :
        \/ StartCreateUser(p)
        \/ CreateUserInsert(p)
        \/ CreateUserCommit(p)
        \/ CreateUserBusy(p)
        \/ StartCreateTeam(p)
        \/ CreateTeamCheckAdmin(p)
        \/ CreateTeamInsertTeam(p)
        \/ CreateTeamInsertMember(p)
        \/ CreateTeamCommit(p)
        \/ Busy(p)
        \/ ReturnConc(p)

SpecRace == InitRace /\ [][NextRace]_vars

----------------------------------------------------------------------------
(* SpecExport: tasks added to two boards, their status updated, and the   *)
(* boards exported                                                         *)

ExportDb ==
    [TeamDb EXCEPT
        !.boards = << [name |-> Str("b1"), description |-> Str(""),
                       team_id |-> 1, status |-> "OPEN",
                       creation_time |-> 0, end_time |-> NoTime],
                      [name |-> Str("b2"), description |-> Str("d"),
                       team_id |-> 1, status |-> "OPEN",
                       creation_time |-> 0, end_time |-> NoTime] >>]

InitExport ==
    /\ db = ExportDb
    /\ prev = ExportDb
    /\ last = NoOp
    /\ now = 0
    /\ conns = NoConns
    /\ writer = 0

\* a task without description assigned to the first user, and one with a
\* description assigned to the second
ExportedTasks ==
    {[title |-> Str("t1"), description |-> Str(""), user_id |-> Id(1)],
     [title |-> Str("t2"), description |-> Padded("d"), user_id |-> Id(2)]}

AddExportedTask ==
    \E task \in ExportedTasks, board_id \in Ids(1),
       creation_time \in {NoTime, 0} :
        LET req == [title |-> task.title, description |-> task.description,
                    user_id |-> task.user_id, board_id |-> board_id,
                    creation_time |-> creation_time]
        IN DoSame("add_task", req, add_task(db, req, now))

CompleteTask ==
    \E id \in Ids(MaxSame) :
        LET req == [id |-> id, status |-> "COMPLETE"]
        IN DoSame("update_task_status", req, update_task_status(db, req))

ExportBoard ==
    \E id \in IdInputs(2) :
        LET req == [id |-> id]
        IN \E r \in export_board(db, req, now) : DoSame("export_board", req, r)

NextExport ==
    \/ Return
    \/ Tick
    \/ AddExportedTask
    \/ CompleteTask
    \/ ExportBoard

SpecExport == InitExport /\ [][NextExport]_vars

----------------------------------------------------------------------------
(* SpecMembers: the members of two teams added, removed and listed, the   *)
(* admins changed and the teams of a user listed; the users were created  *)
(* in an order that is not the order of their names, and the first team   *)
(* carries the later creation_time                                         *)

MembersDb ==
    [EmptyDb EXCEPT
        !.users = << [name |-> Str("bob"), display_name |-> Str("Bo"),
                      creation_time |-> 0],
                     [name |-> Str("alice"), display_name |-> Str("Al"),
                      creation_time |-> 0],
                     [name |-> Str("carol"), display_name |-> Str("Al"),
                      creation_time |-> 0] >>,
        !.teams = << [name |-> Str("eng"), description |-> Str(""),
                      admin_id |-> 1, creation_time |-> 1],
                     [name |-> Str("ops"), description |-> Str(""),
                      admin_id |-> 2, creation_time |-> 0] >>,
        !.members = {<<1, 1>>, <<2, 2>>}]

InitMembers ==
    /\ db = MembersDb
    /\ prev = MembersDb
    /\ last = NoOp
    /\ now = 0
    /\ conns = NoConns
    /\ writer = 0

MemberBatches == SeqsUpTo({Id(1), Id(2), Id(3)}, MaxBatch)

AddListedMembers ==
    \E id \in {Id(1), Id(2)}, users \in MemberBatches :
        LET req == [id |-> id, users |-> users]
        IN Do("add_users_to_team", req, add_users_to_team(db, req))

RemoveListedMembers ==
    \E id \in {Id(1), Id(2)}, users \in MemberBatches :
        LET req == [id |-> id, users |-> users]
        IN Do("remove_users_from_team", req, remove_users_from_team(db, req))

ListTeamUsers ==
    \E id \in IdInputs(2) :
        LET req == [id |-> id]
        IN \E r \in list_team_users(db, req) : Do("list_team_users", req, r)

\* update_team naming a new admin only
ChangeAdmin ==
    \E id \in {Id(1), Id(2)}, admin \in {Id(1), Id(3)} :
        LET req == [id |-> id, name |-> Missing, description |-> Missing,
                    admin |-> admin]
        IN Do("update_team", req, update_team(db, req))

GetUserTeams ==
    \E id \in IdInputs(3) :
        LET req == [id |-> id]
        IN \E r \in get_user_teams(db, req) : Do("get_user_teams", req, r)

NextMembers ==
    \/ Return
    \/ AddListedMembers
    \/ RemoveListedMembers
    \/ ListTeamUsers
    \/ ChangeAdmin
    \/ GetUserTeams

SpecMembers == InitMembers /\ [][NextMembers]_vars

----------------------------------------------------------------------------
(* SpecCreate: create_user called with every kind of name and             *)
(* display_name                                                            *)

AnyDisplayInputs ==
    {Str("Al"), Padded("Bo"), Padded(""), Str("L65"), Missing}

CreateAnyUser ==
    \E name \in UserNameInputs, display_name \in AnyDisplayInputs :
        LET req == [name |-> name, display_name |-> display_name]
        IN Do("create_user", req, create_user(db, req, now))

NextCreate ==
    \/ Return
    \/ Tick
    \/ CreateAnyUser

SpecCreate == Init /\ [][NextCreate]_vars

----------------------------------------------------------------------------
(* SpecLookup: the operations that take the id of one entity, called with *)
(* ids that name a row, ids that name none, and an integer too wide for    *)
(* SQLite; the other fields of the requests are valid                      *)

LookupDb ==
    [TeamDb EXCEPT
        !.boards = << [name |-> Str("b1"), description |-> Str(""),
                       team_id |-> 1, status |-> "OPEN",
                       creation_time |-> 0, end_time |-> NoTime] >>,
        !.tasks = << [title |-> Str("t1"), description |-> Str(""),
                      board_id |-> 1, user_id |-> 1, status |-> "OPEN",
                      creation_time |-> 0] >>]

InitLookup ==
    /\ db = LookupDb
    /\ prev = LookupDb
    /\ last = NoOp
    /\ now = 0
    /\ conns = NoConns
    /\ writer = 0

\* the ids of the k rows of a table, an id that names no row, and a wide
\* integer
LookupIds(k) == Ids(k) \cup {IdWide}

DescribeUserById ==
    \E id \in LookupIds(Len(db.users)) :
        LET req == [id |-> id]
        IN Do("describe_user", req,
              ExecuteWithId(db, id, describe_user(db, req)))

UpdateUserById ==
    \E id \in LookupIds(Len(db.users)) :
        LET req == [id |-> id, display_name |-> Str("Bo"), name |-> Missing]
        IN Do("update_user", req,
              ExecuteWithId(db, id, update_user(db, req)))

GetUserTeamsById ==
    \E id \in LookupIds(Len(db.users)) :
        LET req == [id |-> id]
        IN \E r \in get_user_teams(db, req) :
               Do("get_user_teams", req, ExecuteWithId(db, id, r))

DescribeTeamById ==
    \E id \in LookupIds(Len(db.teams)) :
        LET req == [id |-> id]
        IN Do("describe_team", req,
              ExecuteWithId(db, id, describe_team(db, req)))

UpdateTeamById ==
    \E id \in LookupIds(Len(db.teams)) :
        LET req == [id |-> id, name |-> Missing, description |-> Str("d"),
                    admin |-> NoId]
        IN Do("update_team", req,
              ExecuteWithId(db, id, update_team(db, req)))

ListTeamUsersById ==
    \E id \in LookupIds(Len(db.teams)) :
        LET req == [id |-> id]
        IN \E r \in list_team_users(db, req) :
               Do("list_team_users", req, ExecuteWithId(db, id, r))

ListBoardsById ==
    \E id \in LookupIds(Len(db.teams)) :
        LET req == [id |-> id]
        IN \E r \in list_boards(db, req) :
               Do("list_boards", req, ExecuteWithId(db, id, r))

CloseBoardById ==
    \E id \in LookupIds(Len(db.boards)) :
        LET req == [id |-> id]
        IN Do("close_board", req,
              ExecuteWithId(db, id, close_board(db, req, now)))

UpdateTaskStatusById ==
    \E id \in LookupIds(Len(db.tasks)), status \in valid_statuses :
        LET req == [id |-> id, status |-> status]
        IN Do("update_task_status", req,
              ExecuteWithId(db, id, update_task_status(db, req)))

ExportBoardById ==
    \E id \in LookupIds(Len(db.boards)) :
        LET req == [id |-> id]
        IN \E r \in export_board(db, req, now) :
               Do("export_board", req, ExecuteWithId(db, id, r))

NextLookup ==
    \/ Return
    \/ Tick
    \/ DescribeUserById
    \/ UpdateUserById
    \/ GetUserTeamsById
    \/ DescribeTeamById
    \/ UpdateTeamById
    \/ ListTeamUsersById
    \/ ListBoardsById
    \/ CloseBoardById
    \/ UpdateTaskStatusById
    \/ ExportBoardById

SpecLookup == InitLookup /\ [][NextLookup]_vars

----------------------------------------------------------------------------
(* SpecCalls: every public operation, called with request texts of every  *)
(* kind; the objects of the well-formed requests carry one choice of       *)
(* values for each operation                                               *)

RequestTexts ==
    {ObjectText, EmptyArrayText, NumberText, MalformedText, DeepText}

CallCreateUser ==
    \E text \in RequestTexts, name \in {Str("alice"), Padded("bob")} :
        LET req == [name |-> name, display_name |-> Str("Al")]
        IN Do("create_user", [text |-> text, fields |-> req],
              Handled(db, text, create_user(db, req, now)))

\* list_users and list_teams take no request
CallListUsers ==
    \E r \in list_users(db) : Do("list_users", << >>, r)

CallDescribeUser ==
    \E text \in RequestTexts, id \in {Id(1), IdWide} :
        LET req == [id |-> id]
        IN Do("describe_user", [text |-> text, fields |-> req],
              Handled(db, text,
                      ExecuteWithId(db, id, describe_user(db, req))))

CallUpdateUser ==
    \E text \in RequestTexts, display_name \in {Str("Bo"), Str("L128")} :
        LET req == [id |-> Id(1), display_name |-> display_name,
                    name |-> Missing]
        IN Do("update_user", [text |-> text, fields |-> req],
              Handled(db, text, update_user(db, req)))

CallGetUserTeams ==
    \E text \in RequestTexts :
        LET req == [id |-> Id(1)]
        IN \E r \in get_user_teams(db, req) :
               Do("get_user_teams", [text |-> text, fields |-> req],
                  Handled(db, text, r))

CallCreateTeam ==
    \E text \in RequestTexts :
        LET req == [name |-> Str("eng"), description |-> Str(""),
                    admin |-> Id(1)]
        IN Do("create_team", [text |-> text, fields |-> req],
              Handled(db, text, create_team(db, req, now)))

CallListTeams ==
    \E r \in list_teams(db) : Do("list_teams", << >>, r)

CallDescribeTeam ==
    \E text \in RequestTexts :
        LET req == [id |-> Id(1)]
        IN Do("describe_team", [text |-> text, fields |-> req],
              Handled(db, text, describe_team(db, req)))

CallUpdateTeam ==
    \E text \in RequestTexts :
        LET req == [id |-> Id(1), name |-> Missing,
                    description |-> Str("d"), admin |-> NoId]
        IN Do("update_team", [text |-> text, fields |-> req],
              Handled(db, text, update_team(db, req)))

CallAddUsersToTeam ==
    \E text \in RequestTexts :
        LET req == [id |-> Id(1), users |-> <<Id(2)>>]
        IN Do("add_users_to_team", [text |-> text, fields |-> req],
              Handled(db, text, add_users_to_team(db, req)))

CallRemoveUsersFromTeam ==
    \E text \in RequestTexts :
        LET req == [id |-> Id(1), users |-> <<Id(2)>>]
        IN Do("remove_users_from_team", [text |-> text, fields |-> req],
              Handled(db, text, remove_users_from_team(db, req)))

CallListTeamUsers ==
    \E text \in RequestTexts :
        LET req == [id |-> Id(1)]
        IN \E r \in list_team_users(db, req) :
               Do("list_team_users", [text |-> text, fields |-> req],
                  Handled(db, text, r))

CallCreateBoard ==
    \E text \in RequestTexts :
        LET req == [name |-> Str("b1"), description |-> Str(""),
                    team_id |-> Id(1), creation_time |-> NoTime]
        IN Do("create_board", [text |-> text, fields |-> req],
              Handled(db, text, create_board(db, req, now)))

CallCloseBoard ==
    \E text \in RequestTexts :
        LET req == [id |-> Id(1)]
        IN Do("close_board", [text |-> text, fields |-> req],
              Handled(db, text, close_board(db, req, now)))

CallAddTask ==
    \E text \in RequestTexts :
        LET req == [title |-> Str("t1"), description |-> Str(""),
                    user_id |-> Id(1), board_id |-> Id(1),
                    creation_time |-> NoTime]
        IN Do("add_task", [text |-> text, fields |-> req],
              Handled(db, text, add_task(db, req, now)))

CallUpdateTaskStatus ==
    \E text \in RequestTexts, status \in {"COMPLETE", "DONE"} :
        LET req == [id |-> Id(1), status |-> status]
        IN Do("update_task_status", [text |-> text, fields |-> req],
              Handled(db, text, update_task_status(db, req)))

CallListBoards ==
    \E text \in RequestTexts :
        LET req == [id |-> Id(1)]
        IN \E r \in list_boards(db, req) :
               Do("list_boards", [text |-> text, fields |-> req],
                  Handled(db, text, r))

CallExportBoard ==
    \E text \in RequestTexts :
        LET req == [id |-> Id(1)]
        IN \E r \in export_board(db, req, now) :
               Do("export_board", [text |-> text, fields |-> req],
                  Handled(db, text, r))

NextCalls ==
    \/ Return
    \/ CallCreateUser
    \/ CallListUsers
    \/ CallDescribeUser
    \/ CallUpdateUser
    \/ CallGetUserTeams
    \/ CallCreateTeam
    \/ CallListTeams
    \/ CallDescribeTeam
    \/ CallUpdateTeam
    \/ CallAddUsersToTeam
    \/ CallRemoveUsersFromTeam
    \/ CallListTeamUsers
    \/ CallCreateBoard
    \/ CallCloseBoard
    \/ CallAddTask
    \/ CallUpdateTaskStatus
    \/ CallListBoards
    \/ CallExportBoard

SpecCalls == Init /\ [][NextCalls]_vars

----------------------------------------------------------------------------
(* SpecText: the operations that store a text, called with texts that are *)
(* padded, empty, too long, or that hold a NUL character                   *)

NameTexts == {Str("n1"), Padded("n2"), Padded(""), Str("L65"), Str("N102")}

DescTexts == {Str(""), Padded("d1"), Str("L128"), Str("L129")}

StoreUser ==
    \E name \in NameTexts, display_name \in NameTexts :
        LET req == [name |-> name, display_name |-> display_name]
        IN Do("create_user", req, create_user(db, req, now))

StoreDisplayName ==
    \E display_name \in NameTexts \cup {Str("L129")} :
        LET req == [id |-> Id(1), display_name |-> display_name,
                    name |-> Missing]
        IN Do("update_user", req, update_user(db, req))

StoreTeam ==
    \E name \in NameTexts, description \in DescTexts :
        LET req == [name |-> name, description |-> description,
                    admin |-> Id(1)]
        IN Do("create_team", req, create_team(db, req, now))

StoreTeamTexts ==
    \E name \in NameTexts \cup {Missing},
       description \in DescTexts \cup {Missing} :
        LET req == [id |-> Id(1), name |-> name,
                    description |-> description, admin |-> NoId]
        IN Do("update_team", req, update_team(db, req))

StoreBoard ==
    \E name \in NameTexts, description \in DescTexts :
        LET req == [name |-> name, description |-> description,
                    team_id |-> Id(1), creation_time |-> NoTime]
        IN Do("create_board", req, create_board(db, req, now))

StoreTask ==
    \E title \in NameTexts, description \in DescTexts :
        LET req == [title |-> title, description |-> description,
                    user_id |-> Id(1), board_id |-> Id(1),
                    creation_time |-> NoTime]
        IN Do("add_task", req, add_task(db, req, now))

NextText ==
    \/ Return
    \/ StoreUser
    \/ StoreDisplayName
    \/ StoreTeam
    \/ StoreTeamTexts
    \/ StoreBoard
    \/ StoreTask

SpecText == Init /\ [][NextText]_vars

----------------------------------------------------------------------------
(* SpecRemove: remove_users_from_team and add_users_to_team of several    *)
(* connections, one SQL statement per step, on the team of SpecCap.  The   *)
(* first DELETE of a call opens its transaction and takes the write lock.  *)

\* the connection is never closed: its write lock stays with it
Released_Kept(w, p) == w

\* finally: conn.close(): an open transaction of the connection is rolled
\* back and its write lock is given up
Released(w, p) == IF w = p THEN 0 ELSE w

\* a member, a member followed by the admin, no user at all, and a
\* request on a team that does not exist
ConcRemoveReqs ==
    {[id |-> Id(1), users |-> users] :
        users \in {<<Id(2)>>, <<Id(2), Id(1)>>, << >>}}
    \cup {[id |-> Id(2), users |-> <<Id(2)>>]}

\* remove_users_from_team up to the opening of the connection
StartRemoveUsers(p) ==
    /\ conns[p].pc = "idle"
    /\ \E req \in ConcRemoveReqs :
          conns' = [conns EXCEPT ![p] =
              [Idle EXCEPT !.op = "remove_users_from_team", !.req = req,
                           !.pc = "select_team"]]
    /\ UNCHANGED <<db, prev, last, now, writer>>

\* SELECT admin_id FROM teams WHERE id = ?; out keeps admin_id while the
\* call runs
RemoveUsersSelectTeam(p) ==
    /\ conns[p].op = "remove_users_from_team"
    /\ conns[p].pc = "select_team"
    /\ LET c == conns[p]
       IN conns' = [conns EXCEPT ![p] =
              IF ~TeamExists(db, c.req.id)
              THEN Finished(c, "validation", 0)
              ELSE [c EXCEPT !.out = db.teams[c.req.id.n].admin_id,
                             !.i = 1,
                             !.pc = IF c.req.users = << >>
                                    THEN "commit" ELSE "check_admin"]]
    /\ UNCHANGED <<db, prev, last, now, writer>>

\* if str(user_id) == str(admin_id): raise ValidationError, for the i-th
\* listed id; the connection is closed without commit
RemoveUsersCheckAdmin(p) ==
    /\ conns[p].op = "remove_users_from_team"
    /\ conns[p].pc = "check_admin"
    /\ LET c == conns[p]
       IN IF StrEq(c.req.users[c.i], c.out)
          THEN /\ conns' = [conns EXCEPT ![p] =
                      Finished(c, "validation", 0)]
               /\ writer' = Released(writer, p)
               /\ db' = CloseWithoutCommit(db, c.tx)
          ELSE /\ conns' = [conns EXCEPT ![p] = [c EXCEPT !.pc = "delete"]]
               /\ UNCHANGED <<db, writer>>
    /\ UNCHANGED <<prev, last, now>>

\* DELETE FROM team_members WHERE team_id = ? AND user_id = ? for the i-th
\* listed id
RemoveUsersDelete(p) ==
    /\ conns[p].op = "remove_users_from_team"
    /\ conns[p].pc = "delete"
    /\ writer \in {0, p}
    /\ LET c == conns[p]
           base == IF writer = p THEN c.tx ELSE db
           tx == [base EXCEPT !.members =
                     @ \ {<<c.req.id.n, c.req.users[c.i].n>>}]
       IN /\ conns' = [conns EXCEPT ![p] =
                 IF c.i < Len(c.req.users)
                 THEN [c EXCEPT !.tx = tx, !.i = c.i + 1,
                                !.pc = "check_admin"]
                 ELSE [c EXCEPT !.tx = tx, !.pc = "commit"]]
          /\ db' = Published(db, tx)
    /\ writer' = p
    /\ UNCHANGED <<prev, last, now>>

\* conn.commit(); without a DELETE before it there is nothing to commit
RemoveUsersCommit(p) ==
    /\ conns[p].op = "remove_users_from_team"
    /\ conns[p].pc = "commit"
    /\ db' = IF writer = p THEN conns[p].tx ELSE db
    /\ writer' = Released(writer, p)
    /\ conns' = [conns EXCEPT ![p] = Finished(@, "success", 0)]
    /\ UNCHANGED <<prev, last, now>>

\* another connection holds the write lock until the busy timeout expires
RemoveUsersBusy(p) ==
    /\ conns[p].op = "remove_users_from_team"
    /\ conns[p].pc = "delete"
    /\ LockTimeout(writer, p)
    /\ conns' = [conns EXCEPT ![p] = Finished(@, "storage", 0)]
    /\ UNCHANGED <<db, prev, last, now, writer>>

\* add_users_to_team up to the opening of the connection, for a user who
\* is not a member and for an id that names no user
StartAddMember(p) ==
    /\ conns[p].pc = "idle"
    /\ \E user \in {Id(MaxTeamSize), Id(CapUsers + 1)} :
          conns' = [conns EXCEPT ![p] =
              [Idle EXCEPT !.op = "add_users_to_team",
                           !.req = [id |-> Id(1), users |-> <<user>>],
                           !.pc = "check_team"]]
    /\ UNCHANGED <<db, prev, last, now, writer>>

\* a statement of a call that has started
RunRemove(p) ==
    \/ RemoveUsersSelectTeam(p)
    \/ RemoveUsersCheckAdmin(p)
    \/ RemoveUsersDelete(p)
    \/ RemoveUsersCommit(p)
    \/ RemoveUsersBusy(p)
    \/ AddUsersCheckTeam(p)
    \/ AddUsersCount(p)
    \/ AddUsersCheckUser(p)
    \/ AddUsersInsert(p)
    \/ AddUsersCommit(p)
    \/ AddUsersBusy(p)

NextRemove ==
    \E p \in Procs :
        \/ StartRemoveUsers(p)
        \/ StartAddMember(p)
        \/ RunRemove(p)
        \/ ReturnConc(p)

SpecRemove == InitCapConc /\ [][NextRemove]_vars

\* Every call that has started keeps executing: each statement returns,
\* a DELETE or INSERT that waits for the write lock at the latest when the
\* busy timeout of sqlite3.connect() expires.
LiveRemove == SpecRemove /\ \A p \in Procs : WF_vars(RunRemove(p))

----------------------------------------------------------------------------
(* SpecClose: close_board and add_task of several connections, one SQL    *)
(* statement per step, on an open board without tasks.  The SELECT         *)
(* statements read the committed store; the UPDATE or INSERT of a call     *)
(* opens its transaction and takes the write lock.                         *)

BoardDb == [LookupDb EXCEPT !.tasks = << >>]

InitClose ==
    /\ db = BoardDb
    /\ prev = BoardDb
    /\ last = NoOp
    /\ now = 0
    /\ conns = [p \in Procs |-> Idle]
    /\ writer = 0

\* calls of add_task that have started and not yet returned
AddTaskCalls ==
    {q \in Procs : conns[q].op = "add_task" /\ conns[q].pc # "done"}

\* close_board up to the opening of the connection
StartCloseBoard(p) ==
    /\ conns[p].pc = "idle"
    /\ \E id \in Ids(MaxBoards + 1) :
          conns' = [conns EXCEPT ![p] =
              [Idle EXCEPT !.op = "close_board", !.req = [id |-> id],
                           !.pc = "select_board"]]
    /\ UNCHANGED <<db, prev, last, now, writer>>

\* SELECT status FROM boards WHERE id = ?
CloseBoardSelectBoard(p) ==
    /\ conns[p].op = "close_board" /\ conns[p].pc = "select_board"
    /\ conns' = [conns EXCEPT ![p] =
           IF ~BoardExists(db, @.req.id) THEN Finished(@, "validation", 0)
           ELSE IF AlreadyClosed(db, @.req.id)
                THEN Finished(@, "validation", 0)
           ELSE [@ EXCEPT !.pc = "count_tasks"]]
    /\ UNCHANGED <<db, prev, last, now, writer>>

\* SELECT COUNT(*) FROM tasks WHERE board_id = ? AND status != 'COMPLETE',
\* and end_time = get_current_timestamp()
CloseBoardCountTasks(p) ==
    /\ conns[p].op = "close_board" /\ conns[p].pc = "count_tasks"
    /\ conns' = [conns EXCEPT ![p] =
           IF IncompleteTasks(db, @.req.id.n) > 0
           THEN Finished(@, "validation", 0)
           ELSE [@ EXCEPT !.pc = "update_board", !.t = now]]
    /\ UNCHANGED <<db, prev, last, now, writer>>

\* UPDATE boards SET status = 'CLOSED', end_time = ? WHERE id = ?
CloseBoardUpdate(p) ==
    /\ conns[p].op = "close_board" /\ conns[p].pc = "update_board"
    /\ WriteLockFree(writer)
    /\ LET c == conns[p]
           tx == [db EXCEPT !.boards[c.req.id.n] = CloseRow(@, c.t)]
       IN /\ conns' = [conns EXCEPT ![p] = [c EXCEPT !.pc = "commit",
                                                     !.tx = tx]]
          /\ db' = Published(db, tx)
    /\ writer' = p
    /\ UNCHANGED <<prev, last, now>>

\* conn.commit()
CloseBoardCommit(p) ==
    /\ conns[p].op = "close_board" /\ conns[p].pc = "commit"
    /\ db' = conns[p].tx
    /\ writer' = Released(writer, p)
    /\ conns' = [conns EXCEPT ![p] = Finished(@, "success", 0)]
    /\ UNCHANGED <<prev, last, now>>

\* another connection holds the write lock until the busy timeout expires
CloseBoardBusy(p) ==
    /\ conns[p].op = "close_board" /\ conns[p].pc = "update_board"
    /\ LockTimeout(writer, p)
    /\ conns' = [conns EXCEPT ![p] = Finished(@, "storage", 0)]
    /\ UNCHANGED <<db, prev, last, now, writer>>

\* add_task up to the opening of the connection: request validation and
\* get_current_timestamp()
StartAddTask(p) ==
    /\ conns[p].pc = "idle"
    /\ Len(db.tasks) + Cardinality(AddTaskCalls) < MaxTasks
    /\ \E title \in {Str("t1"), Padded("t1"), Str("")},
          board_id \in Ids(MaxBoards + 1),
          user_id \in {Id(1), Id(MaxUsers + 1)} :
          LET req == [title |-> title, description |-> Str(""),
                      user_id |-> user_id, board_id |-> board_id]
              c == [Idle EXCEPT !.op = "add_task", !.req = req, !.t = now]
          IN conns' = [conns EXCEPT ![p] =
                 IF StrLen(strip(title)) = 0
                 THEN Finished(c, "validation", 0)
                 ELSE [c EXCEPT !.pc = "select_board"]]
    /\ UNCHANGED <<db, prev, last, now, writer>>

\* SELECT status FROM boards WHERE id = ?
AddTaskSelectBoard(p) ==
    /\ conns[p].op = "add_task" /\ conns[p].pc = "select_board"
    /\ conns' = [conns EXCEPT ![p] =
           IF ~BoardExists(db, @.req.board_id)
           THEN Finished(@, "validation", 0)
           ELSE IF ~BoardIsOpen(db, @.req.board_id)
                THEN Finished(@, "validation", 0)
           ELSE [@ EXCEPT !.pc = "check_user"]]
    /\ UNCHANGED <<db, prev, last, now, writer>>

\* SELECT id FROM users WHERE id = ?
AddTaskCheckUser(p) ==
    /\ conns[p].op = "add_task" /\ conns[p].pc = "check_user"
    /\ conns' = [conns EXCEPT ![p] =
           IF UserExists(db, @.req.user_id)
           THEN [@ EXCEPT !.pc = "insert_task"]
           ELSE Finished(@, "validation", 0)]
    /\ UNCHANGED <<db, prev, last, now, writer>>

\* INSERT INTO tasks: takes the write lock; a title the board already
\* holds raises IntegrityError and the connection is closed
AddTaskInsert(p) ==
    /\ conns[p].op = "add_task" /\ conns[p].pc = "insert_task"
    /\ WriteLockFree(writer)
    /\ LET c == conns[p]
           title == strip(c.req.title)
           tx == [db EXCEPT !.tasks = Append(@,
                     [title |-> title,
                      description |-> strip(c.req.description),
                      board_id |-> c.req.board_id.n,
                      user_id |-> c.req.user_id.n,
                      status |-> TaskDefaultStatus,
                      creation_time |-> c.t])]
       IN IF \E i \in 1..Len(db.tasks) :
                 /\ db.tasks[i].title = title
                 /\ db.tasks[i].board_id = c.req.board_id.n
          THEN /\ conns' = [conns EXCEPT ![p] =
                      Finished(c, UniqueConflict(db).res, 0)]
               /\ UNCHANGED <<db, writer>>
          ELSE /\ conns' = [conns EXCEPT ![p] =
                      [c EXCEPT !.pc = "commit", !.tx = tx,
                                !.out = Len(tx.tasks)]]
               /\ writer' = p
               /\ db' = Published(db, tx)
    /\ UNCHANGED <<prev, last, now>>

\* conn.commit()
AddTaskCommit(p) ==
    /\ conns[p].op = "add_task" /\ conns[p].pc = "commit"
    /\ db' = conns[p].tx
    /\ writer' = Released(writer, p)
    /\ conns' = [conns EXCEPT ![p] = Finished(@, "success", @.out)]
    /\ UNCHANGED <<prev, last, now>>

\* another connection holds the write lock until the busy timeout expires
AddTaskBusy(p) ==
    /\ conns[p].op = "add_task" /\ conns[p].pc = "insert_task"
    /\ LockTimeout(writer, p)
    /\ conns' = [conns EXCEPT ![p] = Finished(@, "storage", 0)]
    /\ UNCHANGED <<db, prev, last, now, writer>>

NextClose ==
    \E p \in Procs :
        \/ StartCloseBoard(p)
        \/ CloseBoardSelectBoard(p)
        \/ CloseBoardCountTasks(p)
        \/ CloseBoardUpdate(p)
        \/ CloseBoardCommit(p)
        \/ CloseBoardBusy(p)
        \/ StartAddTask(p)
        \/ AddTaskSelectBoard(p)
        \/ AddTaskCheckUser(p)
        \/ AddTaskInsert(p)
        \/ AddTaskCommit(p)
        \/ AddTaskBusy(p)
        \/ ReturnConc(p)

SpecClose == InitClose /\ [][NextClose]_vars

----------------------------------------------------------------------------
(* Properties.  In a state where a response is pending (last # NoOp),     *)
(* prev is the store the operation was called on, last.req its request,    *)
(* last.res its outcome and db the store it left.                          *)

Called(op) == last # NoOp /\ last.op = op

TeamIds(d)  == 1..Len(d.teams)
BoardIds(d) == 1..Len(d.boards)
TaskIds(d)  == 1..Len(d.tasks)

MembersOf(d, team) == {m[2] : m \in {x \in d.members : x[1] = team}}
TasksOf(d, board)  == {i \in TaskIds(d) : d.tasks[i].board_id = board}

Listed(ids) == {ids[i] : i \in DOMAIN ids}

\* C1: in every reachable state, for every team, the user named by the
\* team's admin_id has a membership row in that team.
C1_AdminIsMember ==
    \A t \in TeamIds(db) : db.teams[t].admin_id \in MembersOf(db, t)

\* C2: close_board on an existing OPEN board succeeds if and only if every
\* task of that board is COMPLETE when it is called (so it succeeds for a
\* board without tasks); otherwise it fails validation and the board stays
\* OPEN.
C2_CloseIffAllComplete ==
    (/\ Called("close_board")
     /\ BoardExists(prev, last.req.id)
     /\ prev.boards[last.req.id.n].status = "OPEN")
    => LET b == last.req.id.n
           allComplete == \A i \in TasksOf(prev, b) :
                              prev.tasks[i].status = "COMPLETE"
       IN /\ (last.res = "success") <=> allComplete
          /\ allComplete => db.boards[b].status = "CLOSED"
          /\ ~allComplete => /\ last.res = "validation"
                             /\ db = prev
                             /\ db.boards[b].status = "OPEN"

\* a close_board refused because a task of the board is IN_PROGRESS
C2_Witness ==
    /\ Called("close_board")
    /\ last.res = "validation"
    /\ BoardExists(prev, last.req.id)
    /\ prev.boards[last.req.id.n].status = "OPEN"
    /\ \E i \in TasksOf(prev, last.req.id.n) :
           prev.tasks[i].status = "IN_PROGRESS"

\* C3: add_task on a CLOSED board fails validation and inserts no task; no
\* operation adds a task to a board that was CLOSED when it was called.
C3_NoTaskOnClosedBoard ==
    /\ (/\ Called("add_task")
        /\ BoardExists(prev, last.req.board_id)
        /\ prev.boards[last.req.board_id.n].status = "CLOSED")
       => last.res = "validation" /\ db.tasks = prev.tasks
    /\ \A b \in BoardIds(prev) :
           prev.boards[b].status = "CLOSED"
           => TasksOf(db, b) = TasksOf(prev, b)

\* an otherwise acceptable add_task refused because its board is CLOSED
C3_Witness ==
    /\ Called("add_task")
    /\ last.res = "validation"
    /\ BoardExists(prev, last.req.board_id)
    /\ prev.boards[last.req.board_id.n].status = "CLOSED"
    /\ last.req.title = Str("t1")
    /\ UserExists(prev, last.req.user_id)
    /\ TasksOf(prev, last.req.board_id.n) = {}

C5_AdminNeverRemoved ==
    (/\ Called("remove_users_from_team")
     /\ TeamExists(prev, last.req.id))
    => LET t == last.req.id.n
           admin_id == prev.teams[t].admin_id
       IN /\ (\E u \in Listed(last.req.users) : SqlEq(admin_id, u))
             => last.res = "validation" /\ db.members = prev.members
          /\ admin_id \in MembersOf(prev, t) => admin_id \in MembersOf(db, t)

\* C7: a board that is CLOSED stays as it is: no step changes its status
\* or any other of its fields.
C7_ClosedBoardFrozen ==
    [][\A b \in BoardIds(db) :
           db.boards[b].status = "CLOSED"
           => b \in BoardIds(db') /\ db'.boards[b] = db.boards[b]]_vars

\* a task of a CLOSED board has its status updated after the clock has
\* passed the board's end_time
C7_Witness ==
    /\ Called("update_task_status")
    /\ last.res = "success"
    /\ \E b \in BoardIds(prev) :
           /\ prev.boards[b].status = "CLOSED"
           /\ prev.boards[b].end_time < now
           /\ last.req.id.n \in TasksOf(prev, b)

\* C8: close_board on a board that is already CLOSED fails validation and
\* leaves every field of the board, end_time included, as it was.
C8_RecloseRefused ==
    (/\ Called("close_board")
     /\ BoardExists(prev, last.req.id)
     /\ prev.boards[last.req.id.n].status = "CLOSED")
    => /\ last.res = "validation"
       /\ db.boards[last.req.id.n] = prev.boards[last.req.id.n]
       /\ db = prev

\* close_board called on a CLOSED board at a time later than its end_time
C8_Witness ==
    /\ Called("close_board")
    /\ BoardExists(prev, last.req.id)
    /\ prev.boards[last.req.id.n].status = "CLOSED"
    /\ prev.boards[last.req.id.n].end_time < now
    /\ last.res = "validation"

\* C9: create_user with a name whose trimmed text is the name of an
\* existing user fails with a validation failure, never a storage failure,
\* and leaves the users table as it was.
C9_DuplicateUserRefused ==
    (/\ Called("create_user")
     /\ last.req.name.present
     /\ \E i \in 1..Len(prev.users) :
            prev.users[i].name.body = last.req.name.body)
    => last.res = "validation" /\ db.users = prev.users

\* a padded spelling of an existing name, with an acceptable display name
C9_Witness ==
    /\ Called("create_user")
    /\ last.req.name = Padded("alice")
    /\ last.req.display_name = Str("Al")
    /\ \E i \in 1..Len(prev.users) : prev.users[i].name = Str("alice")
    /\ last.res = "validation"
    /\ Len(db.users) = Len(prev.users)

\* C10: add_members on an existing team, every listed user existing, is
\* refused for capacity exactly when the number of distinct members the
\* team would have after the call exceeds 50, and succeeds otherwise.
C10_CapacityByResultingCount ==
    (/\ Called("add_users_to_team")
     /\ TeamExists(prev, last.req.id)
     /\ \A u \in Listed(last.req.users) : UserExists(prev, u))
    => LET t == last.req.id.n
           resulting == MembersOf(prev, t)
                            \cup {u.n : u \in Listed(last.req.users)}
       IN IF Cardinality(resulting) > MaxTeamSize
          THEN last.res = "validation" /\ db = prev
          ELSE last.res = "success" /\ MembersOf(db, t) = resulting

\* C6: create_team writes the team row and the membership row of its
\* admin as one unit: a team row becomes readable by other connections
\* only in the step that also makes that membership row readable, a
\* create_team that ends in a failure has published nothing, a successful
\* one leaves the admin a member, and every list_team_users that found the
\* team returns its admin among the members.
C6_TeamAndAdminRowTogether ==
    /\ [][/\ \A t \in TeamIds(db') \ TeamIds(db) :
               db'.teams[t].admin_id \in MembersOf(db', t)
          /\ \A p \in Procs :
               (/\ conns[p].op = "create_team"
                /\ conns'[p].pc = "done" /\ conns[p].pc # "done")
               => IF conns'[p].res = "success"
                  THEN db'.teams[conns'[p].out].admin_id
                           \in MembersOf(db', conns'[p].out)
                  ELSE db' = db]_vars
    /\ [](\A p \in Procs :
             (/\ conns[p].op = "list_team_users"
              /\ conns[p].pc = "done" /\ conns[p].res = "success")
             => db.teams[conns[p].req.id.n].admin_id \in conns[p].out)

\* a list_team_users is about to read the membership rows while a
\* create_team has inserted its team row but not yet the membership row
C6_Witness ==
    \E p, q \in Procs :
        /\ conns[p].op = "create_team" /\ conns[p].pc = "insert_member"
        /\ Len(conns[p].tx.teams) > Len(db.teams)
        /\ conns[q].op = "list_team_users"
        /\ conns[q].pc \in {"check_team", "select_members"}
        /\ conns[q].req.id.n = conns[p].out

\* C11: in every reachable state every team has at most 50 membership
\* rows, and at most one membership row for each (team, user) pair (the
\* rows of a team are as many as its distinct members).
C11_TeamSizeBounded ==
    \A t \in TeamIds(db) :
        /\ TeamSize(db, t) <= MaxTeamSize
        /\ TeamSize(db, t) = Cardinality(MembersOf(db, t))

\* C12: add_members in which every listed id is already a member of the
\* team returns success and leaves the membership rows as they were; so a
\* successful add_members repeated with the same arguments succeeds again
\* and changes nothing.
C12_ReAddIsNoOp ==
    (/\ Called("add_users_to_team")
     /\ TeamExists(prev, last.req.id)
     /\ \A u \in Listed(last.req.users) :
            u.n \in MembersOf(prev, last.req.id.n))
    => last.res = "success" /\ db = prev

C14_ValidationFailureChangesNothing ==
    (last # NoOp /\ last.res = "validation") => db = prev

\* remove_members refused at its second id, the admin, after the DELETE
\* for its first id, a member, was executed
C14_Witness ==
    /\ Called("remove_users_from_team")
    /\ last.res = "validation"
    /\ TeamExists(prev, last.req.id)
    /\ Len(last.req.users) = 2
    /\ last.req.users[1].n \in MembersOf(prev, last.req.id.n)
    /\ ~StrEq(last.req.users[1], prev.teams[last.req.id.n].admin_id)
    /\ StrEq(last.req.users[2], prev.teams[last.req.id.n].admin_id)

\* C15: update_user for an existing user, with a display_name that is
\* non-empty after trimming and at most 128 characters long (and no name
\* in the payload), returns success and stores the trimmed value; with a
\* display_name longer than 128 characters it fails validation.
C15_DisplayNameUpTo128 ==
    (/\ Called("update_user")
     /\ UserExists(prev, last.req.id)
     /\ last.req.display_name.present
     /\ ~last.req.name.present)
    => LET display_name == strip(last.req.display_name)
       IN /\ (StrLen(display_name) > 0
              /\ StrLen(display_name) <= MaxDisplayUpd)
             => /\ last.res = "success"
                /\ db.users[last.req.id.n].display_name = display_name
          /\ StrLen(display_name) > MaxDisplayUpd
             => last.res = "validation"

\* C16: a user's name never changes: every step leaves every user row in
\* place with the name it had; and update_user with a payload that
\* contains name fails validation and changes nothing, the display_name
\* of the user included.
C16_NameImmutable ==
    /\ [][\A u \in 1..Len(db.users) :
              /\ u <= Len(db'.users)
              /\ db'.users[u].name = db.users[u].name]_vars
    /\ []((Called("update_user") /\ last.req.name.present)
          => last.res = "validation" /\ db = prev)

\* update_user on an existing user with a name and an acceptable, new
\* display_name in the payload
C16_Witness ==
    /\ Called("update_user")
    /\ last.req.name = Str("carol")
    /\ last.req.display_name = Str("Bo")
    /\ UserExists(prev, last.req.id)
    /\ prev.users[last.req.id.n].display_name # Str("Bo")
    /\ last.res = "validation"

\* C17: list_boards for an existing team returns the boards of that team
\* whose status is OPEN, each once and no other, in ascending order of
\* their stored creation_time; a CLOSED board is in no listing.  The stored
\* creation_time of a board is the one given to create_board, or the
\* current time when none was given.
C17_ListOpenBoardsInOrder ==
    /\ (Called("list_boards") /\ TeamExists(db, last.req.id))
       => LET out == last.out
              t == last.req.id.n
          IN /\ last.res = "success"
             /\ {out[i].id : i \in DOMAIN out}
                    = {b \in BoardIds(db) : /\ db.boards[b].team_id = t
                                            /\ db.boards[b].status = "OPEN"}
             /\ \A i, j \in DOMAIN out :
                    /\ i # j => out[i].id # out[j].id
                    /\ i < j => db.boards[out[i].id].creation_time
                                    <= db.boards[out[j].id].creation_time
             /\ \A i \in DOMAIN out :
                    out[i].name = db.boards[out[i].id].name
    /\ (Called("create_board") /\ last.res = "success")
       => db.boards[last.out].creation_time
              = IF last.req.creation_time = NoTime
                THEN now ELSE last.req.creation_time

\* a listing of two OPEN boards of which the one created second comes
\* first, while a third board is CLOSED
C17_Witness ==
    /\ Called("list_boards")
    /\ last.res = "success"
    /\ Len(last.out) = 2
    /\ last.out[1].id > last.out[2].id
    /\ \E b \in BoardIds(db) : db.boards[b].status = "CLOSED"

\* C18: update_task_status on an existing task with a status among OPEN,
\* IN_PROGRESS, COMPLETE succeeds whatever the status of the task is, and
\* sets the status of that task and nothing else; with any other status
\* it fails validation and the status of the task is unchanged.
C18_AnyStatusTransition ==
    (Called("update_task_status") /\ TaskExists(prev, last.req.id))
    => LET k == last.req.id.n
       IN IF last.req.status \in {"OPEN", "IN_PROGRESS", "COMPLETE"}
          THEN /\ last.res = "success"
               /\ db = [prev EXCEPT !.tasks[k].status = last.req.status]
          ELSE /\ last.res = "validation"
               /\ db.tasks[k].status = prev.tasks[k].status

\* a task that is COMPLETE is set back to OPEN
C18_Witness ==
    /\ Called("update_task_status")
    /\ TaskExists(prev, last.req.id)
    /\ prev.tasks[last.req.id.n].status = "COMPLETE"
    /\ last.req.status = "OPEN"
    /\ last.res = "success"
    /\ db.tasks[last.req.id.n].status = "OPEN"

\* C19: update_team changes, of the team it names, the fields supplied
\* among name, description and admin, each to the trimmed value supplied,
\* and only when it succeeds; every other field of that team, every other
\* team and all membership rows stay as they were.  A payload supplying
\* none of the three fields fails validation and changes nothing.
C19_UpdateOnlySupplied ==
    Called("update_team")
    => LET req == last.req
           done == last.res = "success"
       IN /\ db.members = prev.members
          /\ db.users = prev.users
          /\ db.boards = prev.boards /\ db.tasks = prev.tasks
          /\ Len(db.teams) = Len(prev.teams)
          /\ \A t \in TeamIds(prev) :
                 IF done /\ SqlEq(t, req.id)
                 THEN /\ db.teams[t].name =
                             IF req.name.present
                             THEN Str(req.name.body) ELSE prev.teams[t].name
                      /\ db.teams[t].description =
                             IF req.description.present
                             THEN Str(req.description.body)
                             ELSE prev.teams[t].description
                      /\ db.teams[t].admin_id =
                             IF req.admin.present
                             THEN req.admin.n ELSE prev.teams[t].admin_id
                      /\ db.teams[t].creation_time
                             = prev.teams[t].creation_time
                 ELSE db.teams[t] = prev.teams[t]
          /\ (~req.name.present /\ ~req.description.present
              /\ ~req.admin.present)
             => last.res = "validation" /\ db = prev

\* only the description of one of two teams is supplied and changed, the
\* team having a member besides its admin
C19_Witness ==
    /\ Called("update_team")
    /\ last.res = "success"
    /\ Len(prev.teams) = 2
    /\ ~last.req.name.present /\ ~last.req.admin.present
    /\ last.req.description.present
    /\ db.teams[last.req.id.n].description
           # prev.teams[last.req.id.n].description
    /\ Cardinality(MembersOf(prev, last.req.id.n)) = 2

C21_NamesUnique ==
    /\ \A i, j \in 1..Len(db.users) :
           i # j => db.users[i].name # db.users[j].name
    /\ \A i, j \in TeamIds(db) :
           i # j => db.teams[i].name # db.teams[j].name
    /\ \A i, j \in BoardIds(db) :
           i # j => ~(/\ db.boards[i].name = db.boards[j].name
                      /\ db.boards[i].team_id = db.boards[j].team_id)
    /\ \A i, j \in TaskIds(db) :
           i # j => ~(/\ db.tasks[i].title = db.tasks[j].title
                      /\ db.tasks[i].board_id = db.tasks[j].board_id)

\* two users, two teams, two boards of two teams with the same name and
\* two tasks of two boards with the same title
C21_Witness ==
    /\ Len(db.users) = 2 /\ Len(db.teams) = 2
    /\ Len(db.boards) = 2 /\ Len(db.tasks) = 2
    /\ db.boards[1].name = db.boards[2].name
    /\ db.tasks[1].title = db.tasks[2].title

\* C22: create_team with the name of an existing team, update_team with
\* the name of another team, create_board with the name of a board of the
\* same team and add_task with the title of a task of the same board end
\* in a validation failure, not a storage failure, and change nothing.
C22_ConflictIsValidationFailure ==
    (/\ last # NoOp
     /\ \/ /\ last.op = "create_team"
           /\ last.req.name.present
           /\ \E t \in TeamIds(prev) :
                  prev.teams[t].name.body = last.req.name.body
        \/ /\ last.op = "update_team"
           /\ last.req.name.present
           /\ \E t \in TeamIds(prev) :
                  /\ t # last.req.id.n
                  /\ prev.teams[t].name.body = last.req.name.body
        \/ /\ last.op = "create_board"
           /\ last.req.name.present
           /\ \E b \in BoardIds(prev) :
                  /\ prev.boards[b].name.body = last.req.name.body
                  /\ prev.boards[b].team_id = last.req.team_id.n
        \/ /\ last.op = "add_task"
           /\ last.req.title.present
           /\ \E k \in TaskIds(prev) :
                  /\ prev.tasks[k].title.body = last.req.title.body
                  /\ prev.tasks[k].board_id = last.req.board_id.n)
    => last.res = "validation" /\ db = prev

\* an existing team is given, in a padded spelling, the name of the other
\* team
C22_Witness ==
    /\ Called("update_team")
    /\ TeamExists(prev, last.req.id)
    /\ last.req.name = Padded("ops")
    /\ \E t \in TeamIds(prev) :
           t # last.req.id.n /\ prev.teams[t].name = Str("ops")
    /\ last.res = "validation"

\* the connections p and q have both finished a create_user, or both a
\* create_team, that reached its INSERT with the same name after trimming
RacedOnName(p, q) ==
    /\ p # q
    /\ conns[p].pc = "done" /\ conns[q].pc = "done"
    /\ conns[p].op = conns[q].op
    /\ conns[p].op \in {"create_user", "create_team"}
    /\ strip(conns[p].req.name) = strip(conns[q].req.name)

\* the rows of the table the create call of p writes that carry its name
RowsNamed(p) ==
    LET rows == IF conns[p].op = "create_user" THEN db.users ELSE db.teams
    IN {i \in 1..Len(rows) : rows[i].name = strip(conns[p].req.name)}

\* C23 as stated: when two calls of create_user, or two of create_team,
\* race on one name and one of them succeeds, the store holds exactly one
\* row with the name and the other call ends in a validation failure.
C23_RaceLoserFailsValidation ==
    \A p, q \in Procs :
        RacedOnName(p, q) /\ conns[q].res = "success"
            => /\ conns[p].res = "validation"
               /\ Cardinality(RowsNamed(p)) = 1

\* a create call leaves its INSERT with a storage failure only in a step
\* in which another connection holds the write lock
StorageFailureIsLockTimeout ==
    \A p \in Procs :
        /\ conns[p].pc \in {"insert_user", "insert_team"}
        /\ conns'[p].pc = "done"
        /\ conns'[p].res = "storage"
        => writer \notin {0, p}

\* C23, amended: when two calls of create_user, or two of create_team,
\* race on one name and one of them succeeds, the store holds exactly one
\* row with the name and the other call fails: with a validation failure,
\* or with a storage failure, which it gets only while another connection
\* holds the write lock (its wait for the lock timed out).
C23_RaceOneWinner ==
    /\ [](\A p, q \in Procs :
            RacedOnName(p, q) /\ conns[q].res = "success"
                => /\ conns[p].res \in {"validation", "storage"}
                   /\ Cardinality(RowsNamed(p)) = 1)
    /\ [][StorageFailureIsLockTimeout]_vars

\* two create_user calls with two spellings of one new name have finished,
\* one with success and the other with a validation failure
C23_Witness ==
    \E p, q \in Procs :
        /\ RacedOnName(p, q)
        /\ conns[p].op = "create_user"
        /\ conns[p].req.name # conns[q].req.name
        /\ conns[q].res = "success"
        /\ conns[p].res = "validation"
        /\ Cardinality(RowsNamed(p)) = 1

\* the end_time of a board is NULL exactly when its status is OPEN
EndTimeNullIffOpen(d) ==
    \A i \in 1..Len(d.boards) :
        (d.boards[i].end_time = NoTime) <=> (d.boards[i].status = "OPEN")

\* C24: in every reachable state the end_time of a board is null exactly
\* when its status is OPEN; a board that create_board has just added is
\* OPEN with a null end_time, and a successful close_board has turned an
\* OPEN board into a CLOSED one whose end_time is the current timestamp,
\* leaving every other board as it was.
C24_EndTimeNullIffOpen ==
    /\ EndTimeNullIffOpen(db)
    /\ last.op = "create_board" /\ last.res = "success"
           => /\ db.boards[last.out].status = "OPEN"
              /\ db.boards[last.out].end_time = NoTime
    /\ last.op = "close_board" /\ last.res = "success"
           => /\ prev.boards[last.req.id.n].status = "OPEN"
              /\ prev.boards[last.req.id.n].end_time = NoTime
              /\ db.boards[last.req.id.n].status = "CLOSED"
              /\ db.boards[last.req.id.n].end_time = now
              /\ now # NoTime
              /\ \A i \in 1..Len(db.boards) :
                     i # last.req.id.n => db.boards[i] = prev.boards[i]

\* a close_board has just closed a board at a time later than the board's
\* creation
C24_Witness ==
    /\ last.op = "close_board" /\ last.res = "success"
    /\ db.boards[last.req.id.n].status = "CLOSED"
    /\ db.boards[last.req.id.n].end_time = now
    /\ db.boards[last.req.id.n].creation_time < now

\* the Description line of a task whose description is s, with or
\* without the text that stands for an empty description
Shown(s, placeholder) ==
    IF placeholder /\ StrLen(s) = 0 THEN Str("No description") ELSE s

\* the report of a successful export_board lists the tasks the board has,
\* once each and in ascending creation_time, numbered from 1, each with
\* its title, status, assignee name and creation_time and with its
\* description as Shown; the line "No tasks in this board." stands in the
\* place of the TASKS block exactly when the board has no task
ExportListsTasks(placeholder) ==
    last.op = "export_board" /\ last.res = "success" =>
        LET rows == {i \in 1..Len(db.tasks) :
                        db.tasks[i].board_id = last.req.id.n}
            tasks == last.out.tasks
        IN /\ db = prev
           /\ Len(tasks) = Cardinality(rows)
           /\ last.out.no_tasks <=> (rows = {})
           /\ \A k \in DOMAIN tasks : tasks[k].n = k
           /\ \A j, k \in DOMAIN tasks :
                  j < k => tasks[j].created <= tasks[k].created
           /\ \A i \in rows : \E k \in DOMAIN tasks :
                  /\ tasks[k].title = db.tasks[i].title
                  /\ tasks[k].status = db.tasks[i].status
                  /\ tasks[k].assigned_to = db.users[db.tasks[i].user_id].name
                  /\ tasks[k].description
                         = Shown(db.tasks[i].description, placeholder)
                  /\ tasks[k].created = db.tasks[i].creation_time

\* C25 as stated: export_board on a board with N tasks reports exactly N
\* entries numbered 1..N in ascending creation_time, each with the title,
\* status, assignee name, description and creation_time of its task, and
\* the no-tasks line in their place when N = 0.
C25_ExportCarriesDescription == ExportListsTasks(FALSE)

\* C25, amended: the same, the Description line of an entry carrying the
\* task's description when that is not empty and the text
\* "No description" when it is.
C25_ExportListsTasks == ExportListsTasks(TRUE)

\* a board with two tasks has been exported, the task added second being
\* the older one and listed first, one of the two without description
C25_Witness ==
    /\ last.op = "export_board" /\ last.res = "success"
    /\ Len(last.out.tasks) = 2
    /\ Len(db.tasks) = 2
    /\ db.tasks[2].creation_time < db.tasks[1].creation_time
    /\ last.out.tasks[1].title = db.tasks[2].title
    /\ \E k \in 1..2 : last.out.tasks[k].description = Str("No description")
    /\ \E k \in 1..2 : last.out.tasks[k].status = "COMPLETE"

\* C26: a successful list_team_users returns the users that have a
\* membership row in the team, each once, with their id, name and
\* display_name, in ascending order of name, and changes nothing.
C26_MembersListedByName ==
    last.op = "list_team_users" /\ last.res = "success" =>
        LET team == last.req.id.n
            out == last.out
        IN /\ db = prev
           /\ {out[k].id : k \in DOMAIN out}
                  = {u \in 1..Len(db.users) : <<team, u>> \in db.members}
           /\ \A j, k \in DOMAIN out : j # k => out[j].id # out[k].id
           /\ \A k \in DOMAIN out :
                  /\ out[k].name = db.users[out[k].id].name
                  /\ out[k].display_name = db.users[out[k].id].display_name
           /\ \A j, k \in DOMAIN out :
                  j < k => NameRank(out[j].name) < NameRank(out[k].name)

\* the team whose admin is bob has got alice and carol as members, and
\* the list is alice, bob, carol
C26_Witness ==
    /\ last.op = "list_team_users" /\ last.res = "success"
    /\ last.req.id.n = 1
    /\ Len(last.out) = 3
    /\ last.out[1].name = Str("alice") /\ last.out[1].id = 2
    /\ last.out[2].name = Str("bob") /\ last.out[2].id = 1
    /\ last.out[3].name = Str("carol")
    /\ <<2, 1>> \notin db.members

\* the teams of which the user is the admin or a member
TeamsOfUser(d, u) ==
    {t \in 1..Len(d.teams) : d.teams[t].admin_id = u \/ <<t, u>> \in d.members}

\* C27: a successful get_user_teams returns the teams of which the user is
\* the admin or a member, each once (also when the user is both, and
\* whatever the number of other members), with their name, description
\* and creation_time, ordered by creation_time, and changes nothing.
C27_TeamsOfUserListedOnce ==
    last.op = "get_user_teams" /\ last.res = "success" =>
        LET teams == TeamsOfUser(db, last.req.id.n)
            out == last.out
        IN /\ db = prev
           /\ Len(out) = Cardinality(teams)
           /\ \A t \in teams : \E k \in DOMAIN out :
                  /\ out[k].name = db.teams[t].name
                  /\ out[k].description = db.teams[t].description
                  /\ out[k].creation_time = db.teams[t].creation_time
           /\ \A j, k \in DOMAIN out :
                  j < k => out[j].creation_time <= out[k].creation_time

\* the teams of a user are listed who is the admin of a team with three
\* members, itself among them, and a member of the other team, which was
\* created earlier and is listed first
C27_Witness ==
    /\ last.op = "get_user_teams" /\ last.res = "success"
    /\ last.req.id.n = 1
    /\ db.teams[1].admin_id = 1
    /\ {<<1, 1>>, <<1, 2>>, <<1, 3>>, <<2, 1>>} \subseteq db.members
    /\ db.teams[2].admin_id # 1
    /\ Len(last.out) = 2
    /\ last.out[1].name = db.teams[2].name
    /\ last.out[2].name = db.teams[1].name

\* the field is present, and after trimming it is not empty and at most
\* MaxNameLen characters long
WellFormedName(s) ==
    /\ s.present
    /\ StrLen(Str(s.body)) >= 1
    /\ StrLen(Str(s.body)) <= MaxNameLen

\* C28: create_user succeeds exactly when both fields are present, both
\* are non-empty and at most 64 characters long after trimming, and no
\* user has the trimmed name; it then adds one user with the trimmed
\* values and returns its id, and otherwise it fails validation and
\* changes nothing.
C28_CreateUserIffWellFormed ==
    last.op = "create_user" =>
        LET req == last.req
            ok == /\ WellFormedName(req.name)
                  /\ WellFormedName(req.display_name)
                  /\ \A i \in 1..Len(prev.users) :
                         prev.users[i].name # Str(req.name.body)
        IN /\ last.res = "success" <=> ok
           /\ ok => /\ db = [prev EXCEPT !.users = Append(@,
                               [name |-> Str(req.name.body),
                                display_name |-> Str(req.display_name.body),
                                creation_time |-> now])]
                    /\ last.out = Len(db.users)
           /\ ~ok => last.res = "validation" /\ db = prev

\* a second user has been created from a name and a display_name that
\* came with surrounding whitespace
C28_Witness ==
    /\ last.op = "create_user" /\ last.res = "success"
    /\ last.req.name.ws /\ last.req.display_name.ws
    /\ Len(prev.users) = 1 /\ Len(db.users) = 2
    /\ ~db.users[2].name.ws /\ ~db.users[2].display_name.ws

\* the number of rows of the table in which the operation looks up its id
RowsLookedUp(d, op) ==
    CASE op \in {"describe_user", "update_user", "get_user_teams"}
             -> Len(d.users)
      [] op \in {"describe_team", "update_team", "list_team_users",
                 "list_boards"}
             -> Len(d.teams)
      [] op \in {"close_board", "export_board"} -> Len(d.boards)
      [] op = "update_task_status" -> Len(d.tasks)
      [] OTHER -> 0

\* the operation took an id, and the id names no row of its table
IdUnknown ==
    /\ RowsLookedUp(prev, last.op) > 0
    /\ last.req.id.present
    /\ last.req.id.n \notin 1..RowsLookedUp(prev, last.op)

\* C29: describe_user, update_user, get_user_teams, describe_team,
\* update_team, list_team_users, list_boards, close_board,
\* update_task_status and export_board, called with an id that names no
\* entity of the kind, end in a validation failure and change nothing.
C29_UnknownIdFailsValidation ==
    IdUnknown => last.res = "validation" /\ db = prev

\* the call that has ended was given a request text
TookText == last # NoOp /\ last.req # << >>

\* C30: every call of a public operation ends in a success response, a
\* validation failure or a storage failure, and a call whose request is
\* not well-formed JSON ends in a validation failure.
C30_ThreeOutcomesMalformedIsValidation ==
    last # NoOp =>
        /\ last.res \in {"success", "validation", "storage"}
        /\ TookText /\ ~last.req.text.wellformed
               => last.res = "validation" /\ db = prev

\* the rows of the table are kept in a step: none is removed, and each
\* keeps the creation_time it got when it was created
RowsKept(old, new) ==
    /\ Len(new) >= Len(old)
    /\ \A i \in 1..Len(old) : new[i].creation_time = old[i].creation_time

\* C31: no step removes a user, a team, a board or a task: the ids of
\* each table only grow; a step removes membership rows only when it is a
\* successful remove_users_from_team, and then only rows of the team and
\* the users the request lists.
C31_NothingDeleted ==
    [][/\ RowsKept(db.users, db'.users)
       /\ RowsKept(db.teams, db'.teams)
       /\ RowsKept(db.boards, db'.boards)
       /\ RowsKept(db.tasks, db'.tasks)
       /\ db.members \ db'.members # {}
              => /\ last'.op = "remove_users_from_team"
                 /\ last'.res = "success"
                 /\ \A m \in db.members \ db'.members :
                        /\ m[1] = last'.req.fields.id.n
                        /\ \E i \in DOMAIN last'.req.fields.users :
                               last'.req.fields.users[i].n = m[2]]_vars

\* remove_users_from_team has removed a membership row from a store that
\* holds a board and a task, and the users, teams, boards and tasks are
\* as they were
C31_Witness ==
    /\ last.op = "remove_users_from_team" /\ last.res = "success"
    /\ prev.members \ db.members # {}
    /\ Len(db.boards) > 0 /\ Len(db.tasks) > 0
    /\ db.users = prev.users /\ db.teams = prev.teams
    /\ db.boards = prev.boards /\ db.tasks = prev.tasks


\* A stored name or title: not empty, trimmed, at most 64 characters
StoredNameOk(s) ==
    /\ s.present /\ ~s.ws
    /\ StrLen(s) >= 1 /\ StrLen(s) <= MaxNameLen

\* A stored description: at most 128 characters
StoredDescOk(s) == StrLen(s) <= MaxDescLen

\* C32: in every reachable state every stored user name, display_name,
\* team name, board name and task title is non-empty, trimmed and at most
\* 64 characters long, and every stored description is at most 128
\* characters long, after the update operations as after the creations.
C32_StoredTextWithinLimits ==
    /\ \A i \in DOMAIN db.users :
           /\ StoredNameOk(db.users[i].name)
           /\ StoredNameOk(db.users[i].display_name)
    /\ \A i \in DOMAIN db.teams :
           /\ StoredNameOk(db.teams[i].name)
           /\ StoredDescOk(db.teams[i].description)
    /\ \A i \in DOMAIN db.boards :
           /\ StoredNameOk(db.boards[i].name)
           /\ StoredDescOk(db.boards[i].description)
    /\ \A i \in DOMAIN db.tasks :
           /\ StoredNameOk(db.tasks[i].title)
           /\ StoredDescOk(db.tasks[i].description)


\* C33: every operation releases its connection on every exit path: once
\* it has returned, with success, a validation failure or a storage
\* failure, it holds no write lock and none of its statements is pending,
\* and a call that fails leaves the committed store as it was.
C33_ConnectionReleased ==
    /\ [](\A p \in Procs :
             conns[p].pc \in {"idle", "done"}
                 => writer # p /\ conns[p].tx = EmptyDb)
    /\ [][\A p \in Procs :
             /\ conns[p].pc # "done" /\ conns'[p].pc = "done"
             /\ conns'[p].res # "success"
             => db' = db]_vars

\* a call that deleted a row and then met the admin has returned
C33_Witness ==
    \E p \in Procs :
        /\ conns[p].pc = "done" /\ conns[p].res = "validation"
        /\ conns[p].op = "remove_users_from_team"
        /\ conns[p].req.users = <<Id(2), Id(1)>>
        /\ <<1, 2>> \in db.members
        /\ writer = 0


\* C34: every operation that has started eventually completes, with a
\* success or an error, also while other connections run operations on
\* the same store: no call waits forever for another one.
C34_EveryCallCompletes ==
    \A p \in Procs :
        (conns[p].pc \notin {"idle", "done"}) ~> (conns[p].pc = "done")

\* a call that waited for the write lock of another call has completed,
\* and so has the call that held the lock
C34_Witness ==
    \E p, q \in Procs :
        /\ conns[p].pc = "done" /\ conns[p].res = "storage"
        /\ conns[q].pc = "done" /\ conns[q].res = "success"
        /\ conns[q].req.users # << >>


\* the steps of a call that check the existence of a row or a rule
CheckSteps ==
    {"select_team", "check_admin", "check_team", "count", "check_user"}

\* C35: within an operation every existence and business-rule check is
\* made before the first write statement, and the operation commits at
\* most once: a connection that has written executes no check any more
\* (remove_users_from_team compares every listed id with the admin before
\* its first DELETE), and its commit ends the call.
C35_ChecksBeforeWrites ==
    [][\A p \in Procs :
          conns'[p] # conns[p]
              => /\ conns[p].pc \in CheckSteps => writer # p
                 /\ conns[p].pc = "commit" => conns'[p].pc = "done"]_vars


\* both calls have returned with success
BothSucceeded(p, q) ==
    /\ conns[p].pc = "done" /\ conns[p].op = "close_board"
    /\ conns[p].res = "success"
    /\ conns[q].pc = "done" /\ conns[q].op = "add_task"
    /\ conns[q].res = "success"
    /\ conns[q].req.board_id.n = conns[p].req.id.n

\* C36: add_task and close_board running concurrently on the same board
\* end as in one of the two serial orders: the two calls never both
\* succeed, and no CLOSED board holds a task that was inserted after
\* close_board counted the incomplete tasks of the board (an OPEN task,
\* every task being inserted OPEN and none being updated here).
C36_AddTaskCloseBoardSerial ==
    /\ \A p, q \in Procs : ~BothSucceeded(p, q)
    /\ \A i \in DOMAIN db.tasks :
           db.boards[db.tasks[i].board_id].status = "CLOSED"
               => db.tasks[i].status # "OPEN"


\* C37: two calls of add_members running concurrently on the same team
\* never leave it with more than 50 membership rows: when a call has
\* committed, the team it named holds at most 50 rows, whatever another
\* call inserted between the capacity check and the commit.
C37_ConcurrentAddsKeepCapacity ==
    \A p \in Procs :
        (/\ conns[p].op = "add_users_to_team"
         /\ conns[p].pc = "done" /\ conns[p].res = "success")
        => TeamSize(db, conns[p].req.id.n) <= MaxTeamSize


\* C38: in every reachable state every task of a CLOSED board has status
\* COMPLETE, and update_task_status does not move a task of a CLOSED board
\* out of COMPLETE.
C38_ClosedBoardTasksComplete ==
    /\ \A i \in TaskIds(db) :
           db.boards[db.tasks[i].board_id].status = "CLOSED"
               => db.tasks[i].status = "COMPLETE"
    /\ (/\ Called("update_task_status")
        /\ TaskExists(prev, last.req.id)
        /\ prev.boards[prev.tasks[last.req.id.n].board_id].status = "CLOSED"
        /\ prev.tasks[last.req.id.n].status = "COMPLETE")
       => db.tasks[last.req.id.n].status = "COMPLETE"


\* the operations that only read
ReadOperations ==
    {"list_users", "describe_user", "get_user_teams", "list_teams",
     "describe_team", "list_team_users", "list_boards", "export_board"}

\* C39: the read operations list_users, describe_user, teams_for_user,
\* list_teams, describe_team, list_members, list_boards and export_board
\* leave the users, teams, memberships, boards and tasks as they were,
\* whether they succeed or fail.
C39_ReadsChangeNothing ==
    last.op \in ReadOperations
        => /\ db.users = prev.users /\ db.teams = prev.teams
           /\ db.members = prev.members
           /\ db.boards = prev.boards /\ db.tasks = prev.tasks

\* an export of a board that holds a task has succeeded
C39_Witness ==
    /\ last.op = "export_board" /\ last.res = "success"
    /\ Len(last.out.tasks) > 0
    /\ db = prev
    /\ db.members # {}

\* C40: a board added by create_board is OPEN with a null end_time and a
\* task added by add_task is OPEN; so a board that holds a task is closed
\* only when every task of it is COMPLETE, which a task becomes only by
\* update_task_status.
C40_NewBoardAndTaskOpen ==
    /\ [](/\ last.op = "create_board" /\ last.res = "success"
              => /\ db.boards[last.out].status = "OPEN"
                 /\ db.boards[last.out].end_time = NoTime
          /\ last.op = "add_task" /\ last.res = "success"
              => db.tasks[last.out].status = "OPEN"
          /\ \A p \in DOMAIN conns :
                 /\ conns[p].op = "add_task" /\ conns[p].pc = "done"
                 /\ conns[p].res = "success"
                 => db.tasks[conns[p].out].status = "OPEN")
    /\ [][/\ \A b \in BoardIds(db) :
               db.boards[b].status = "OPEN" /\ db'.boards[b].status = "CLOSED"
                   => \A i \in TasksOf(db, b) :
                          db.tasks[i].status = "COMPLETE"
          /\ \A i \in TaskIds(db) :
               db.tasks[i].status # "COMPLETE"
               /\ db'.tasks[i].status = "COMPLETE"
                   => last'.op = "update_task_status"]_vars

=============================================================================
